---- MODULE Spec2Model ----
(***************************************************************************)
(* Adaptive Rendering Capability System of llm_physics:                    *)
(*   - lib/device-detector.ts          (capability detector)               *)
(*   - components/DeviceContext.tsx    (capability provider)               *)
(*   - components/WebGLRenderer.tsx    (GPU renderer gate and frame loop)  *)
(*   - hooks/usePyodideSolver.ts       (computation offload, UI side)      *)
(*   - workers/pyodide-solver.worker.ts (computation offload, worker side) *)
(*   - lib/shader-optimizer.ts         (shader validator and optimizer)    *)
(***************************************************************************)
EXTENDS Integers, Sequences, FiniteSets, TLC

VARIABLES
    \* ---- host environment and capability detector --------------------
    env,            \* the runtime environment the detector probes (fixed per session)
    hostDpr,        \* window.devicePixelRatio of the host, changes over time
    detectResult,   \* outcome of the last direct call of detectDeviceCapabilities
    \* ---- DeviceProvider ----------------------------------------------
    provider,       \* React state of DeviceProvider and its media-query subscription
    consumer,       \* components calling useDeviceCapabilities(), and what they got
    \* ---- Canvas2DRenderer ---------------------------------------------
    canvas,         \* the 2D renderer: viewport state, pointer, Solve requests
    \* ---- WebGLRenderer -----------------------------------------------
    gpu,            \* WebGLRenderer component: scenes, listeners, frame callbacks
    \* ---- usePyodideSolver and its worker -----------------------------
    hook,           \* the hook instance: workerRef, SolverState, attached listeners
    calls,          \* the promises solve() has returned
    worker,         \* the background unit: interpreter, running initPyodide calls
    toWorker,       \* messages posted to the worker and not yet handled
    toMain,         \* messages posted by the worker and not yet dispatched
    \* ---- solveEquation as a function ---------------------------------
    sample,         \* a Solve request and the outcome solveEquation computed for it
    \* ---- shader validator / optimizer --------------------------------
    shader,         \* a shader source, its kind, and what the shader tools returned
    \* ---- Canvas2DRenderer with its solver ----------------------------
    plot            \* the 2D renderer's x-range, plotData and renderError

uiVars == <<env, hostDpr, detectResult, provider, gpu>>
solverVars == <<hook, calls, worker, toWorker, toMain>>

\* what the actions of one component leave unchanged in the others
nonUiVars == <<solverVars, sample, consumer, canvas, shader, plot>>
nonSolverVars == <<uiVars, sample, consumer, canvas, shader, plot>>
nonSampleVars == <<uiVars, solverVars, consumer, canvas, shader, plot>>
nonConsumerVars == <<uiVars, solverVars, sample, canvas, shader, plot>>
nonCanvasVars == <<uiVars, solverVars, sample, consumer, shader, plot>>
nonShaderVars == <<uiVars, solverVars, sample, consumer, canvas, plot>>
nonPlotVars == <<uiVars, sample, consumer, canvas, shader>>

vars == <<uiVars, solverVars, sample, consumer, canvas, shader, plot>>

NULL == "null"

(***************************************************************************)
(* Bounds of the model                                                     *)
(***************************************************************************)
MaxDpr == 5         \* host pixel ratios range over 1..MaxDpr halves: 0.5, 1, 1.5, ...
MaxScenes == 3      \* scenes one WebGLRenderer builds (mount plus rebuilds)
MaxFrames == 3      \* frame callbacks counted per renderer mount

(***************************************************************************)
(* RenderCapability and DeviceCapabilities (device-detector.ts)            *)
(***************************************************************************)
RenderCapability == {"CANVAS_2D_FALLBACK", "WEBGL_LEGACY", "WEBGL_2_OPTIMIZED"}

\* renderer strings, one per family the heuristic distinguishes, in the case
\* mix the WEBGL_debug_renderer_info extension reports them; NULL = no string
RendererStrings ==
    {NULL, "Mali-G78", "Adreno (TM) 650", "PowerVR SGX", "NVIDIA GeForce RTX",
     "AMD Radeon Pro", "Intel(R) HD Graphics"}

TextureSizes == {4096, 16384}

\* Every runtime environment the detector can be run in.
Envs ==
    [ hasWindow      : BOOLEAN,          \* typeof window !== 'undefined'
      hasDocument    : BOOLEAN,          \* typeof document !== 'undefined'
      webgl2         : BOOLEAN,          \* getContext('webgl2') yields a context
      webgl          : BOOLEAN,          \* getContext('webgl') yields a context
      experimental   : BOOLEAN,          \* getContext('experimental-webgl') yields one
      debugInfo      : BOOLEAN,          \* WEBGL_debug_renderer_info present
      renderer       : RendererStrings,  \* UNMASKED_RENDERER_WEBGL
      instancedArrays: BOOLEAN,          \* ANGLE_instanced_arrays present
      ctx2d          : BOOLEAN,          \* getContext('2d') yields a context
      imageData      : {"ok", "null", "throw"},  \* createImageData outcome
      maxTextureSize : TextureSizes ]

\* A JavaScript completion: a returned value or a raised exception.
Return(v) == [threw |-> FALSE, value |-> v]
Throw == [threw |-> TRUE, value |-> 0]

\* The family keywords getGPUMemory looks for, after toLowerCase().
Includes(renderer, word) ==
    CASE word = "mali"    -> renderer = "Mali-G78"
      [] word = "adreno"  -> renderer = "Adreno (TM) 650"
      [] word = "powervr" -> renderer = "PowerVR SGX"
      [] word = "nvidia"  -> renderer = "NVIDIA GeForce RTX"
      [] word = "geforce" -> renderer = "NVIDIA GeForce RTX"
      [] word = "radeon"  -> renderer = "AMD Radeon Pro"
      [] word = "amd"     -> renderer = "AMD Radeon Pro"
      [] OTHER            -> FALSE

\* testWebGL2Support(): {supported, context}; context is a version tag or NULL
testWebGL2Support(e) ==
    IF ~e.hasWindow \/ ~e.hasDocument
    THEN [supported |-> FALSE, context |-> NULL]
    ELSE LET gl == IF e.webgl2 THEN "gl2" ELSE NULL
         IN [supported |-> gl # NULL, context |-> gl]

\* testWebGL1Support(): getContext('webgl') || getContext('experimental-webgl')
testWebGL1Support(e) ==
    IF ~e.hasWindow \/ ~e.hasDocument
    THEN [supported |-> FALSE, context |-> NULL]
    ELSE LET gl == IF e.webgl THEN "gl1"
                   ELSE IF e.experimental THEN "gl1x" ELSE NULL
         IN [supported |-> gl # NULL, context |-> gl]

\* mutant of getGPUMemory: PowerVR is counted with the other mobile families
getGPUMemory_PowerVRAsMobile(e, gl) ==
    IF gl = NULL THEN 0
    ELSE IF ~e.debugInfo THEN 512
    ELSE IF e.renderer = NULL THEN 512
    ELSE IF \/ Includes(e.renderer, "mali") \/ Includes(e.renderer, "adreno")
            \/ Includes(e.renderer, "powervr") THEN 1024
    ELSE IF Includes(e.renderer, "nvidia") \/ Includes(e.renderer, "geforce") THEN 4096
    ELSE IF Includes(e.renderer, "radeon") \/ Includes(e.renderer, "amd") THEN 4096
    ELSE 2048

\* getGPUMemory(gl)
getGPUMemory(e, gl) ==
    IF gl = NULL THEN 0
    ELSE IF ~e.debugInfo THEN 512
    ELSE IF e.renderer = NULL THEN 512
    ELSE IF Includes(e.renderer, "mali") \/ Includes(e.renderer, "adreno") THEN 1024
    ELSE IF Includes(e.renderer, "powervr") THEN 512
    ELSE IF Includes(e.renderer, "nvidia") \/ Includes(e.renderer, "geforce") THEN 4096
    ELSE IF Includes(e.renderer, "radeon") \/ Includes(e.renderer, "amd") THEN 4096
    ELSE 2048

\* the body of the try block of estimateDeviceRAM
EstimateTryBlock(e) ==
    IF ~e.ctx2d THEN Return(2048)
    ELSE CASE e.imageData = "throw" -> Throw
           [] e.imageData = "null"  -> Return(512)
           [] OTHER                 -> Return(2048)

\* mutant of estimateDeviceRAM: the try block without its catch
estimateDeviceRAM_NoCatch(e) ==
    IF ~e.hasWindow \/ ~e.hasDocument THEN Return(2048)
    ELSE EstimateTryBlock(e)

\* estimateDeviceRAM(): never raises, the catch turns a throw into 512
estimateDeviceRAM(e) ==
    IF ~e.hasWindow \/ ~e.hasDocument THEN Return(2048)
    ELSE LET r == EstimateTryBlock(e)
         IN IF r.threw THEN Return(512) ELSE r

\* getMaxTextureSize(gl)
getMaxTextureSize(e, gl) == IF gl = NULL THEN 0 ELSE e.maxTextureSize

\* window.devicePixelRatio is a positive number, below 1 when the page is
\* zoomed out; the model counts it in halves
DprUnit == 2        \* the count that stands for the ratio 1.0
Dpr(n) == n * DprUnit

\* mutant of ReadPixelRatio: no ratio, instead of 1, where there is no window
ReadPixelRatio_NoDefault(e, dpr) == IF e.hasWindow THEN dpr ELSE 0

\* typeof window !== 'undefined' ? window.devicePixelRatio : 1
ReadPixelRatio(e, dpr) == IF e.hasWindow THEN dpr ELSE Dpr(1)

Caps(path, version, gpuMem, dpr, maxTex, ram, inst) ==
    [ renderPath |-> path, webglVersion |-> version, gpuMemoryMB |-> gpuMem,
      devicePixelRatio |-> dpr, maxTextureSize |-> maxTex, estimatedRAM |-> ram,
      supportsInstancing |-> inst ]

\* the null of useState<DeviceCapabilities | null>: no snapshot
NoCaps == Caps(NULL, 0, 0, 0, 0, 0, FALSE)

\* mutant of DetectTier: the WebGL 1 probe is tried before the WebGL 2 probe
DetectTier_LegacyFirst(e) ==
    LET webgl2 == testWebGL2Support(e)
        webgl1 == testWebGL1Support(e)
    IN IF webgl1.supported /\ webgl1.context # NULL THEN [tier |-> 1, gl |-> webgl1.context]
       ELSE IF webgl2.supported /\ webgl2.context # NULL
            THEN [tier |-> 2, gl |-> webgl2.context]
       ELSE [tier |-> 0, gl |-> NULL]

\* the branch detectDeviceCapabilities takes: WebGL 2 first, then WebGL 1
DetectTier(e) ==
    LET webgl2 == testWebGL2Support(e)
        webgl1 == testWebGL1Support(e)
    IN IF webgl2.supported /\ webgl2.context # NULL THEN [tier |-> 2, gl |-> webgl2.context]
       ELSE IF webgl1.supported /\ webgl1.context # NULL
            THEN [tier |-> 1, gl |-> webgl1.context]
       ELSE [tier |-> 0, gl |-> NULL]

\* detectDeviceCapabilities(): a completion carrying a DeviceCapabilities
detectDeviceCapabilities(e, dpr) ==
    LET t   == DetectTier(e)
        ram == estimateDeviceRAM(e)
    IN IF ram.threw THEN [threw |-> TRUE, value |-> NoCaps]
       ELSE CASE t.tier = 2 ->
                   Return(Caps("WEBGL_2_OPTIMIZED", 2, getGPUMemory(e, t.gl),
                               ReadPixelRatio(e, dpr), getMaxTextureSize(e, t.gl),
                               ram.value, TRUE))
              [] t.tier = 1 ->
                   Return(Caps("WEBGL_LEGACY", 1, getGPUMemory(e, t.gl),
                               ReadPixelRatio(e, dpr), getMaxTextureSize(e, t.gl),
                               ram.value, e.instancedArrays))
              [] OTHER ->
                   Return(Caps("CANVAS_2D_FALLBACK", 0, 0, ReadPixelRatio(e, dpr), 0,
                               ram.value, FALSE))

\* getAccessibilityMessage(capabilities)
getAccessibilityMessage(c) ==
    CASE c.renderPath = "WEBGL_2_OPTIMIZED" ->
            "3D visualization enabled with hardware acceleration"
      [] c.renderPath = "WEBGL_LEGACY" ->
            "3D visualization enabled with basic hardware acceleration"
      [] c.renderPath = "CANVAS_2D_FALLBACK" ->
            "3D visualization disabled on this device. Showing interactive mathematics instead"
      [] OTHER -> "Visualization mode unknown"

(***************************************************************************)
(* Direct calls of the detector, in any environment (server side included) *)
(***************************************************************************)
InitHost ==
    /\ hostDpr \in 1..MaxDpr
    /\ detectResult = [called |-> FALSE, threw |-> FALSE, value |-> NoCaps]

\* a caller invokes detectDeviceCapabilities()
CallDetect ==
    /\ LET r == detectDeviceCapabilities(env, hostDpr)
       IN detectResult' = [called |-> TRUE, threw |-> r.threw, value |-> r.value]
    /\ UNCHANGED <<env, hostDpr, provider, gpu, nonUiVars>>

\* the user moves the window to a screen with another pixel ratio
HostDprChange ==
    /\ \E r \in (1..MaxDpr) \ {hostDpr} : hostDpr' = r
    /\ UNCHANGED <<env, detectResult, provider, gpu, nonUiVars>>

(***************************************************************************)
(* DeviceProvider (DeviceContext.tsx) and createPixelRatioListener         *)
(***************************************************************************)
MaxSnapshots == 3   \* snapshots one provider mount publishes

ProviderUnmounted ==
    [ mounted      |-> FALSE,
      capabilities |-> NoCaps,  \* useState<DeviceCapabilities | null>(null)
      isReady      |-> FALSE,   \* useState(false)
      detectCalls  |-> 0,       \* calls of detectDeviceCapabilities by this mount
      snapshots    |-> 0,       \* snapshot objects this mount has published
      mqRatio      |-> 0,       \* ratio in the media query text, 0 = no query
      mqMatches    |-> FALSE,   \* match state the query last reported
      mqListener   |-> FALSE,   \* handleChange is registered on the query
      mqIgnored    |-> FALSE ]  \* the query changed with no listener registered

\* createPixelRatioListener(callback): the subscription it leaves behind
createPixelRatioListener(e, dpr) ==
    IF ~e.hasWindow
    THEN [mqRatio |-> 0, mqMatches |-> FALSE, mqListener |-> FALSE]
    ELSE [mqRatio |-> dpr, mqMatches |-> TRUE, mqListener |-> TRUE]

\* the useEffect of DeviceProvider, run once when the provider mounts
ProviderMount ==
    /\ ~provider.mounted
    /\ env.hasWindow /\ env.hasDocument      \* effects run in the browser only
    /\ LET detected == detectDeviceCapabilities(env, hostDpr)
           sub      == createPixelRatioListener(env, hostDpr)
       IN /\ ~detected.threw
          /\ provider' = [ mounted      |-> TRUE,
                           capabilities |-> detected.value,
                           isReady      |-> TRUE,
                           detectCalls  |-> 1,
                           snapshots    |-> 1,
                           mqRatio      |-> sub.mqRatio,
                           mqMatches    |-> sub.mqMatches,
                           mqListener   |-> sub.mqListener,
                           mqIgnored    |-> FALSE ]
    /\ UNCHANGED <<env, hostDpr, detectResult, gpu, nonUiVars>>

\* the first render of a DeviceProvider: capabilities null, isReady false,
\* the effect not yet run (on the server it never runs)
ProviderFirstRender ==
    /\ ~provider.mounted
    /\ provider' = [provider EXCEPT !.mounted = TRUE]
    /\ UNCHANGED <<env, hostDpr, detectResult, gpu, nonUiVars>>

\* the useEffect of a provider that has rendered, and the render that
\* follows its two state updates
ProviderEffect ==
    /\ provider.mounted /\ provider.detectCalls = 0
    /\ env.hasWindow /\ env.hasDocument
    /\ LET detected == detectDeviceCapabilities(env, hostDpr)
           sub      == createPixelRatioListener(env, hostDpr)
       IN /\ ~detected.threw
          /\ provider' = [ mounted      |-> TRUE,
                           capabilities |-> detected.value,
                           isReady      |-> TRUE,
                           detectCalls  |-> 1,
                           snapshots    |-> 1,
                           mqRatio      |-> sub.mqRatio,
                           mqMatches    |-> sub.mqMatches,
                           mqListener   |-> sub.mqListener,
                           mqIgnored    |-> FALSE ]
    /\ UNCHANGED <<env, hostDpr, detectResult, gpu, nonUiVars>>

\* mutant of RatioCallback: the callback runs the whole probe again
RatioCallback_Redetect(p, newRatio) ==
    [p EXCEPT !.capabilities = detectDeviceCapabilities(env, newRatio).value,
              !.detectCalls = @ + 1,
              !.snapshots = @ + 1]

\* the callback DeviceProvider hands to createPixelRatioListener:
\* setCapabilities(prev => prev ? {...prev, devicePixelRatio: newRatio} : prev)
RatioCallback(p, newRatio) ==
    IF p.capabilities = NoCaps THEN p
    ELSE [p EXCEPT !.capabilities = [@ EXCEPT !.devicePixelRatio = newRatio],
                   !.snapshots = @ + 1]

\* the browser re-evaluates the media query, finds its match state changed
\* and fires 'change'; handleChange calls callback(window.devicePixelRatio)
MediaQueryChange ==
    /\ provider.mqRatio # 0
    /\ provider.snapshots < MaxSnapshots
    /\ (hostDpr = provider.mqRatio) # provider.mqMatches
    /\ LET p == [provider EXCEPT !.mqMatches = (hostDpr = provider.mqRatio)]
       IN provider' = IF p.mqListener THEN RatioCallback(p, hostDpr)
                      ELSE [p EXCEPT !.mqIgnored = TRUE]
    /\ UNCHANGED <<env, hostDpr, detectResult, gpu, nonUiVars>>

\* mutant of ProviderCleanup: the cleanup leaves handleChange registered
ProviderCleanup_KeepsListener(p) ==
    [ProviderUnmounted EXCEPT !.mqRatio = p.mqRatio, !.mqMatches = p.mqMatches,
                              !.mqListener = p.mqListener]

\* the provider unmounts: the effect's cleanup removes the change listener
\* from the media query, which itself goes on following the host's ratio
ProviderCleanup(p) == [ProviderUnmounted EXCEPT !.mqRatio = p.mqRatio,
                                                !.mqMatches = p.mqMatches]

(***************************************************************************)
(* useDeviceCapabilities (DeviceContext.tsx) and the components calling it *)
(***************************************************************************)
\* createContext<DeviceContextValue | undefined>(undefined): the default value
ContextUndefined ==
    [ defined |-> FALSE, capabilities |-> NoCaps, accessibilityMessage |-> "",
      isReady |-> FALSE ]

\* value={{ capabilities, accessibilityMessage, isReady }} (lines 59-62)
ContextValue(p) ==
    [ defined |-> TRUE, capabilities |-> p.capabilities,
      accessibilityMessage |-> getAccessibilityMessage(p.capabilities),
      isReady |-> p.isReady ]

\* mutant of RendersChildren: without `if (!isReady || !capabilities) return null`
RendersChildren_Unguarded(p) == p.mounted

\* the provider renders its children only past `if (!isReady || !capabilities)`
RendersChildren(p) == p.mounted /\ p.isReady /\ p.capabilities # NoCaps

\* useContext(DeviceContext) in a component at the given place of the tree
useContext(p, place) ==
    IF place = "inside" /\ RendersChildren(p) THEN ContextValue(p)
    ELSE ContextUndefined

\* mutant of useDeviceCapabilities: the context is returned unchecked
useDeviceCapabilities_Unchecked(context) ==
    [threw |-> FALSE, message |-> "", value |-> context]

\* useDeviceCapabilities(): throws on the default value, else returns the value
useDeviceCapabilities(context) ==
    IF ~context.defined
    THEN [ threw |-> TRUE,
           message |-> "useDeviceCapabilities must be used within a DeviceProvider",
           value |-> ContextUndefined ]
    ELSE [threw |-> FALSE, message |-> "", value |-> context]

\* two components: one a descendant of <DeviceProvider>, one outside of it
Places == {"inside", "outside"}

NotRendered ==
    [rendered |-> FALSE, threw |-> FALSE, message |-> "", value |-> ContextUndefined]

InitConsumer == consumer = [place \in Places |-> NotRendered]

\* a component renders and calls useDeviceCapabilities(); a descendant of the
\* provider renders only when the provider renders its children
RenderConsumer ==
    /\ \E place \in Places :
          /\ place = "inside" => RendersChildren(provider)
          /\ LET r == useDeviceCapabilities(useContext(provider, place))
             IN consumer' = [consumer EXCEPT ![place] =
                                [ rendered |-> TRUE, threw |-> r.threw,
                                  message |-> r.message, value |-> r.value ]]
    /\ UNCHANGED nonConsumerVars

(***************************************************************************)
(* WebGLRenderer (WebGLRenderer.tsx)                                       *)
(***************************************************************************)
ListenerNames == {"touchstart", "touchmove", "touchend",
                  "mousedown", "mousemove", "mouseup"}
GeometryNames == {"geometry", "highDetailGeometry", "mediumDetailGeometry",
                  "lowDetailGeometry"}

NoScene ==
    [ built      |-> FALSE,
      listeners  |-> {},       \* listeners registered on renderer.domElement
      geometries |-> {},       \* geometries created and not yet disposed
      disposed   |-> FALSE,    \* renderer.dispose() was called
      attached   |-> FALSE,    \* renderer.domElement is a child of the container
      antialias  |-> FALSE,
      pixelRatio |-> 0 ]

Min(a, b) == IF a < b THEN a ELSE b

GpuUnmounted ==
    [ mounted    |-> FALSE,
      notice     |-> FALSE,    \* the fallback notice is what the component renders
      seen       |-> 0,        \* snapshot number the effect last ran with
      scene      |-> NoScene,  \* the scene the current effect run built
      scenes     |-> 0,        \* scenes built since mount
      raf        |-> FALSE,    \* a frame callback of the current scene is pending
      frames     |-> 0,        \* frames the current scene has rendered
      oldRaf     |-> FALSE,    \* a torn-down scene still has a frame callback pending
      staleFrames|-> 0,        \* frames rendered on a disposed renderer
      leaked     |-> {} ]      \* listeners and geometries a teardown left behind

\* mutant of BuildScene: the reported ratio is handed on uncapped
BuildScene_Uncapped(c) ==
    [ built      |-> TRUE,
      listeners  |-> ListenerNames,
      geometries |-> GeometryNames,
      disposed   |-> FALSE,
      attached   |-> TRUE,
      antialias  |-> c.devicePixelRatio < Dpr(2),
      pixelRatio |-> c.devicePixelRatio ]

\* the scene the effect body builds (lines 38-177)
BuildScene(c) ==
    [ built      |-> TRUE,
      listeners  |-> ListenerNames,
      geometries |-> GeometryNames,
      disposed   |-> FALSE,
      attached   |-> TRUE,
      antialias  |-> c.devicePixelRatio < Dpr(2),
      pixelRatio |-> Min(c.devicePixelRatio, Dpr(2)) ]

\* mutant of EffectGate: the effect builds for every path with a GPU context
EffectGate_AnyWebGL(c, containerRef) ==
    c.renderPath # "CANVAS_2D_FALLBACK"

\* the guards at the head of the effect (lines 28-32)
EffectGate(c, containerRef) ==
    /\ c.renderPath = "WEBGL_2_OPTIMIZED"
    /\ containerRef

\* the component's render output: the fallback notice (lines 231-237)
ShowsNotice(c) == c.renderPath # "WEBGL_2_OPTIMIZED"

\* one run of the effect for snapshot c: build the scene and call animate()
GpuEffect(g, c, snapshot) ==
    IF EffectGate(c, ~ShowsNotice(c))
    THEN [g EXCEPT !.seen = snapshot, !.notice = ShowsNotice(c),
                   !.scene = BuildScene(c), !.scenes = @ + 1,
                   !.raf = TRUE, !.frames = 1]
    ELSE [g EXCEPT !.seen = snapshot, !.notice = ShowsNotice(c)]

\* what the cleanup releases: six removeEventListener calls, four dispose calls
CleanupRemoves == {"touchstart", "touchmove", "touchend",
                   "mousedown", "mousemove", "mouseup"}
CleanupDisposes == {"geometry", "highDetailGeometry", "mediumDetailGeometry",
                    "lowDetailGeometry"}

\* the scene after the statements of the cleanup (lines 212-227)
TearDown(sc) ==
    [sc EXCEPT !.listeners = @ \ CleanupRemoves,
               !.geometries = @ \ CleanupDisposes,
               !.disposed = TRUE,
               \* if (container && renderer.domElement.parentNode) removeChild(...)
               !.attached = FALSE]

\* what a torn-down scene still holds
Leftovers(sc) ==
    sc.listeners \cup sc.geometries
        \cup (IF sc.attached THEN {"canvas"} ELSE {})
        \cup (IF sc.disposed THEN {} ELSE {"renderer"})

\* geometries of meshes the camera always sees: the instanced particle mesh
RenderedGeometries == {"geometry"}

\* the cleanup the effect returned (lines 211-228); a gated run returned none
GpuCleanup(g) ==
    IF ~g.scene.built THEN g
    ELSE [g EXCEPT !.scene = NoScene,
                   !.leaked = @ \cup Leftovers(TearDown(g.scene)),
                   !.raf = FALSE, !.frames = 0,
                   !.oldRaf = @ \/ g.raf]

\* <WebGLRenderer/> mounts under a provider that renders its children
GpuMount ==
    /\ ~gpu.mounted
    /\ provider.mounted /\ provider.isReady /\ provider.capabilities # NoCaps
    /\ gpu' = GpuEffect([GpuUnmounted EXCEPT !.mounted = TRUE,
                                             !.oldRaf = gpu.oldRaf,
                                             !.staleFrames = gpu.staleFrames],
                        provider.capabilities, provider.snapshots)
    /\ UNCHANGED <<env, hostDpr, detectResult, provider, nonUiVars>>

\* a new snapshot reached the component: cleanup of the old run, then a new run
GpuRerun ==
    /\ gpu.mounted /\ provider.mounted
    /\ gpu.seen # provider.snapshots
    /\ gpu.scenes < MaxScenes
    /\ gpu' = GpuEffect(GpuCleanup(gpu), provider.capabilities, provider.snapshots)
    /\ UNCHANGED <<env, hostDpr, detectResult, provider, nonUiVars>>

\* <WebGLRenderer/> unmounts
GpuUnmount ==
    /\ gpu.mounted
    /\ gpu' = [GpuCleanup(gpu) EXCEPT !.mounted = FALSE, !.notice = FALSE, !.seen = 0,
                                      !.scenes = 0]
    /\ UNCHANGED <<env, hostDpr, detectResult, provider, nonUiVars>>

\* the provider unmounts, and its children with it
ProviderUnmount ==
    /\ provider.mounted
    /\ provider' = ProviderCleanup(provider)
    /\ gpu' = IF gpu.mounted
              THEN [GpuCleanup(gpu) EXCEPT !.mounted = FALSE, !.notice = FALSE,
                                           !.seen = 0, !.scenes = 0]
              ELSE gpu
    /\ UNCHANGED <<env, hostDpr, detectResult, nonUiVars>>

\* animate() of the current scene runs: it requests the next frame and renders
Frame ==
    /\ gpu.raf
    /\ gpu.frames < MaxFrames
    /\ gpu' = [gpu EXCEPT !.frames = @ + 1]
    /\ UNCHANGED <<env, hostDpr, detectResult, provider, nonUiVars>>

\* animate() of a torn-down scene runs: nothing cancelled its frame request.
\* It requests the next frame and calls renderer.render(scene, camera) on the
\* disposed renderer, and three.js creates anew the internal resources of a
\* disposed geometry that is rendered again
StaleFrame ==
    /\ gpu.oldRaf
    /\ gpu.staleFrames < MaxFrames
    /\ gpu' = [gpu EXCEPT !.staleFrames = @ + 1,
                          !.leaked = @ \cup RenderedGeometries]
    /\ UNCHANGED <<env, hostDpr, detectResult, provider, nonUiVars>>

(***************************************************************************)
(* solveEquation (pyodide-solver.worker.ts): the Python it runs            *)
(***************************************************************************)
MaxPoints == 4      \* sample counts range over 0..MaxPoints
MaxAbsX == 2        \* interval endpoints range over -MaxAbsX..MaxAbsX

\* equations: a polynomial, a constant, one sympify rejects, one whose
\* function lambdify cannot resolve
Equations == {"x**2", "5", "x +", "foo(x)"}

\* sample values are exact rationals num/den with den > 0
Rat(n, d) == [num |-> n, den |-> d]

\* mutant of linspace: endpoint = False, the interval is divided by num
linspace_NoEndpoint(start, stop, num) ==
    [i \in 1..num |-> Rat(start * num + (i - 1) * (stop - start), num)]

\* np.linspace(start, stop, num), endpoint = True:
\*   div = num - 1; step = (stop - start) / div;
\*   y = arange(0, num) * step + start; if num > 1: y[-1] = stop
\* and for num = 1: y = arange(0, 1) * (stop - start) + start = [start]
linspace(start, stop, num) ==
    LET div == num - 1
    IN IF num = 1 THEN <<Rat(start, 1)>>
       ELSE [i \in 1..num |->
                IF i = num THEN Rat(stop * div, div)
                ELSE Rat(start * div + (i - 1) * (stop - start), div)]

\* f = lambdify(x, sympify(equation), 'numpy') applied to the sample array;
\* a constant expression yields a scalar, which has no tolist()
ApplyLambda(equation, xs) ==
    CASE equation = "x**2" ->
            [scalar |-> FALSE,
             list |-> [i \in 1..Len(xs) |-> Rat(xs[i].num * xs[i].num,
                                                xs[i].den * xs[i].den)]]
      [] OTHER ->
            [scalar |-> TRUE, list |-> <<Rat(5, 1)>>]

\* y_vals.tolist() if hasattr(y_vals, 'tolist') else [float(y_vals)] * len(x_vals)
YList(y, xs) ==
    IF ~y.scalar THEN y.list
    ELSE [i \in 1..Len(xs) |-> y.list[1]]

NoData == [xValues |-> <<>>, yValues |-> <<>>]

\* the Python program of solveEquation: its result, or the exception it raises
RunPython(args, packagesLoaded) ==
    IF ~packagesLoaded
        THEN [ok |-> FALSE, error |-> "ModuleNotFoundError: No module named 'sympy'",
              data |-> NoData]
    ELSE IF args.equation = "x +"
        THEN [ok |-> FALSE, error |-> "SympifyError: could not parse 'x +'",
              data |-> NoData]
    ELSE IF args.numPoints < 0
        THEN [ok |-> FALSE, error |-> "ValueError: Number of samples must be non-negative",
              data |-> NoData]
    ELSE IF args.equation = "foo(x)"
        THEN [ok |-> FALSE, error |-> "NameError: name 'foo' is not defined",
              data |-> NoData]
    ELSE LET xs == linspace(args.xMin, args.xMax, args.numPoints)
             ys == YList(ApplyLambda(args.equation, xs), xs)
         IN [ok |-> TRUE, error |-> "",
             \* new Float32Array(data.get('x')), new Float32Array(data.get('y'))
             data |-> [xValues |-> xs, yValues |-> ys]]

\* `Equation evaluation failed: ${error}`
EvaluationFailed(error) == <<"Equation evaluation failed: ", error>>

\* solveEquation(equation, variable, xMin, xMax, numPoints): resolves with the
\* two arrays or rejects with an Error carrying the message
solveEquation(args, pyodideLoaded, packagesLoaded) ==
    IF ~pyodideLoaded
    THEN [ok |-> FALSE, message |-> <<"Pyodide not initialized">>, data |-> NoData]
    ELSE LET r == RunPython(args, packagesLoaded)
         IN IF r.ok THEN [ok |-> TRUE, message |-> <<>>, data |-> r.data]
            ELSE [ok |-> FALSE, message |-> EvaluationFailed(r.error), data |-> NoData]

\* every Solve request with integer arguments in the bounds
SampleArgs ==
    [ equation : Equations, variable : {"x"},
      xMin : -MaxAbsX..MaxAbsX, xMax : -MaxAbsX..MaxAbsX,
      numPoints : -1..MaxPoints ]

NoArgs == [equation |-> "", variable |-> "x", xMin |-> 0, xMax |-> 0, numPoints |-> 0]

InitSample ==
    sample = [done |-> FALSE, args |-> NoArgs,
              result |-> [ok |-> FALSE, message |-> <<>>, data |-> NoData]]

\* solveEquation runs on an initialised interpreter for one request
Evaluate ==
    /\ ~sample.done
    /\ \E a \in SampleArgs :
          sample' = [done |-> TRUE, args |-> a, result |-> solveEquation(a, TRUE, TRUE)]
    /\ UNCHANGED nonSampleVars

\* the next request is taken up
NextSample ==
    /\ sample.done
    /\ sample' = [done |-> FALSE, args |-> NoArgs,
                  result |-> [ok |-> FALSE, message |-> <<>>, data |-> NoData]]
    /\ UNCHANGED nonSampleVars

(***************************************************************************)
(* usePyodideSolver (hooks/usePyodideSolver.ts)                            *)
(***************************************************************************)
MaxCalls == 2       \* solve() calls made in one run of the model
MaxMounts == 1      \* times the consuming component mounts
MaxCleanups == 2    \* times the effect's cleanup function is run per mount
MaxCycles == 2      \* mount/unmount cycles of one consuming component

\* the requests the caller issues: one that evaluates, one that does not
CallerArgs ==
    { [equation |-> "x**2", variable |-> "x", xMin |-> -1, xMax |-> 1, numPoints |-> 3],
      [equation |-> "x +",  variable |-> "x", xMin |-> -1, xMax |-> 1, numPoints |-> 3] }

NoMessage == <<>>   \* error: null

\* useState<SolverState>({isReady: false, isLoading: true, error: null})
SolverStateInit == [isReady |-> FALSE, isLoading |-> TRUE, error |-> NoMessage]
SolverStateReady == [isReady |-> TRUE, isLoading |-> FALSE, error |-> NoMessage]
SolverStateFailed(message) == [isReady |-> FALSE, isLoading |-> FALSE, error |-> message]

HookInit ==
    [ mounted    |-> FALSE,
      mounts     |-> 0,                \* mounts so far
      workerRef  |-> FALSE,            \* workerRef.current is a Worker
      state      |-> SolverStateInit,
      listeners  |-> {},               \* calls whose handleMessage is attached
      cleanups   |-> 0,                \* runs of the cleanup function, this mount
      terminates |-> 0,                \* terminate() calls on this mount's worker
      raised     |-> FALSE ]           \* the cleanup function raised

\* the states of section 4.4, read off the hook instance
ServiceState(h) ==
    IF h.mounts = 0 THEN "UNINITIALIZED"
    ELSE IF ~h.mounted THEN "TERMINATED"
    ELSE IF h.state.isLoading THEN "INITIALIZING"
    ELSE IF h.state.isReady THEN "READY"
    ELSE "FAILED"

NoCall ==
    [ status    |-> "idle",       \* idle, pending, resolved, rejected
      args      |-> NoArgs,
      error     |-> NoMessage,    \* message of the Error it was rejected with
      data      |-> NoData,       \* {xValues, yValues} it was resolved with
      service   |-> "",           \* ServiceState when solve() was called
      mount     |-> 0,            \* the mount of the hook whose solve() it is
      forwarded |-> FALSE,        \* a solve message was posted for it
      attached  |-> FALSE,        \* its handleMessage was attached
      settledBy |-> 0,            \* request the settling message answered
      evalError |-> NoMessage ]   \* the message the worker computed, if evaluation failed

WorkerNone ==
    [ status    |-> "none",       \* none, starting, running, broken, terminated
      pyodide   |-> 0,            \* 0 = null, else the initPyodide call that set it
      pkgs      |-> {},           \* interpreters with sympy and numpy loaded
      init      |-> [r \in 1..2 |-> "idle"],   \* 1 = auto-initialize, 2 = 'init' message
      evals     |-> <<>>,         \* responses of evaluations not yet posted
      outcomes  |-> 0,            \* ready/error messages posted by initPyodide
      reordered |-> FALSE ]       \* a response overtook an earlier request's

InitSolver ==
    /\ hook = HookInit
    /\ calls = [i \in 1..MaxCalls |-> NoCall]
    /\ worker = WorkerNone
    /\ toWorker = <<>>
    /\ toMain = <<>>

InitMsg == [type |-> "init", req |-> 0, args |-> NoArgs]
SolveMsg(id, a) == [type |-> "solve", req |-> id, args |-> a]

Reply(type, req, message, data) ==
    [type |-> type, req |-> req, message |-> message, data |-> data]

\* the effect of usePyodideSolver on mount (lines 29-75), for the first
\* `limit` mounts of the component
HookMountUpTo(limit) ==
    /\ ~hook.mounted
    /\ hook.mounts < limit
    /\ \E created \in BOOLEAN :
          IF created
          THEN /\ hook' = [HookInit EXCEPT !.mounted = TRUE, !.mounts = hook.mounts + 1,
                                           !.workerRef = TRUE]
               /\ worker' = [WorkerNone EXCEPT !.status = "starting"]
               /\ toWorker' = <<InitMsg>>
               /\ toMain' = <<>>
          ELSE \* new Worker(...) threw
               /\ hook' = [HookInit EXCEPT !.mounted = TRUE, !.mounts = hook.mounts + 1,
                                           !.state = SolverStateFailed(<<"Worker creation failed">>)]
               /\ worker' = WorkerNone
               /\ toWorker' = <<>>
               /\ toMain' = <<>>
    /\ UNCHANGED <<calls, nonSolverVars>>

HookMount == HookMountUpTo(MaxMounts)

\* mutant of Cleanup: the reference is cleared, the worker is left running
Cleanup_NoTerminate(h) == [h EXCEPT !.workerRef = FALSE, !.cleanups = @ + 1]

\* mutant of Cleanup: terminate() without the guard and without clearing the ref
Cleanup_Unguarded(h) ==
    IF h.workerRef
    THEN [h EXCEPT !.terminates = @ + 1, !.cleanups = @ + 1]
    ELSE [h EXCEPT !.raised = TRUE, !.cleanups = @ + 1]

\* the cleanup function of the effect (lines 78-83)
Cleanup(h) ==
    IF h.workerRef
    THEN [h EXCEPT !.terminates = @ + 1, !.workerRef = FALSE, !.cleanups = @ + 1]
    ELSE [h EXCEPT !.cleanups = @ + 1]

\* worker.terminate(): the unit stops, its queued messages are dropped
Terminated(w) == [w EXCEPT !.status = "terminated", !.evals = <<>>]

\* the cleanup function is run: at unmount, and possibly again afterwards
RunCleanup ==
    /\ hook.mounts > 0
    /\ hook.cleanups < MaxCleanups
    /\ LET h == Cleanup(hook)
       IN /\ hook' = [h EXCEPT !.mounted = FALSE]
          /\ IF h.terminates > hook.terminates
             THEN /\ worker' = Terminated(worker)
                  /\ toWorker' = <<>>
                  /\ toMain' = <<>>
             ELSE UNCHANGED <<worker, toWorker, toMain>>
    /\ UNCHANGED <<calls, nonSolverVars>>

\* mutant of SolveGuard: only the worker reference is checked
SolveGuard_RefOnly(h) == ~h.workerRef

\* `!workerRef.current || !state.isReady` (line 95)
SolveGuard(h) == ~h.workerRef \/ ~h.state.isReady

FirstIdle == CHOOSE i \in 1..MaxCalls :
                 /\ calls[i].status = "idle"
                 /\ \A j \in 1..(i - 1) : calls[j].status # "idle"

\* the body of solve(equation, variable, xMin, xMax, numPoints) (lines 94-125)
SolveCall(a) ==
    LET id == FirstIdle
        c  == [NoCall EXCEPT !.args = a, !.service = ServiceState(hook),
                             !.mount = hook.mounts]
    IN IF SolveGuard(hook)
       THEN /\ calls' = [calls EXCEPT ![id] =
                            [c EXCEPT !.status = "rejected",
                                      !.error = <<"Solver not ready">>]]
            /\ UNCHANGED <<hook, toWorker>>
       ELSE /\ calls' = [calls EXCEPT ![id] =
                            [c EXCEPT !.status = "pending", !.forwarded = TRUE,
                                      !.attached = TRUE]]
            /\ hook' = [hook EXCEPT !.listeners = @ \cup {id}]
            /\ toWorker' = Append(toWorker, SolveMsg(id, a))

\* solve(equation, variable, xMin, xMax, numPoints) called by some component
Solve ==
    /\ hook.mounts > 0
    /\ \E i \in 1..MaxCalls : calls[i].status = "idle"
    /\ \E a \in CallerArgs : SolveCall(a)
    /\ UNCHANGED <<worker, toMain, nonSolverVars>>

\* the lifecycle listener registered at mount (lines 39-55)
LifecycleListener(st, m) ==
    IF m.type = "ready" THEN SolverStateReady
    ELSE IF m.type = "error" THEN SolverStateFailed(m.message)
    ELSE st

\* mutant of HandleMessage: a response settles only the call it answers
HandleMessage_Correlated(id, c, m) ==
    IF c.status # "pending" \/ m.req # id THEN c
    ELSE IF m.type = "solve-result"
         THEN [c EXCEPT !.status = "resolved", !.data = m.data, !.settledBy = m.req]
    ELSE IF m.type = "error"
         THEN [c EXCEPT !.status = "rejected", !.error = m.message, !.settledBy = m.req]
    ELSE c

\* handleMessage of one solve() call (lines 100-113): the call after message m
HandleMessage(id, c, m) ==
    IF c.status # "pending" THEN c
    ELSE IF m.type = "solve-result"
         THEN [c EXCEPT !.status = "resolved", !.data = m.data, !.settledBy = m.req]
    ELSE IF m.type = "error"
         THEN [c EXCEPT !.status = "rejected", !.error = m.message, !.settledBy = m.req]
    ELSE c

\* mutant of RemovesListener: handleMessage stays attached
RemovesListener_Never(m) == FALSE

\* the message types on which handleMessage removes itself
RemovesListener(m) == m.type \in {"solve-result", "error"}

\* the worker's next message is dispatched to every listener attached to it
Dispatch ==
    /\ hook.workerRef
    /\ toMain # <<>>
    /\ LET m == Head(toMain)
       IN /\ hook' = [hook EXCEPT
                        !.state = LifecycleListener(@, m),
                        !.listeners = IF RemovesListener(m) THEN {} ELSE @]
          /\ calls' = [i \in 1..MaxCalls |->
                          IF i \in hook.listeners THEN HandleMessage(i, calls[i], m)
                          ELSE calls[i]]
    /\ toMain' = Tail(toMain)

DeliverToMain ==
    /\ Dispatch
    /\ UNCHANGED <<worker, toWorker, nonSolverVars>>

(***************************************************************************)
(* The background unit (workers/pyodide-solver.worker.ts)                  *)
(***************************************************************************)
\* `if (pyodide) return;` at the head of initPyodide (line 49)
InitGuard(w) == w.pyodide # 0

\* call r of initPyodide starts: it returns at once or begins to load
StartInit(w, r) ==
    IF InitGuard(w) THEN [w EXCEPT !.init[r] = "returned"]
    ELSE [w EXCEPT !.init[r] = "loading"]

\* the worker script is evaluated; its last statement calls initPyodide()
WorkerStart ==
    /\ worker.status = "starting"
    /\ worker' = StartInit([worker EXCEPT !.status = "running"], 1)
    /\ UNCHANGED <<hook, calls, toWorker, toMain, nonSolverVars>>

\* the worker script fails to load: the worker's 'error' event reaches the
\* listener of lines 57-63
WorkerErrorEvent ==
    /\ worker.status = "starting"
    /\ hook.workerRef
    /\ worker' = [worker EXCEPT !.status = "broken"]
    /\ hook' = [hook EXCEPT !.state = SolverStateFailed(<<"Script error">>)]
    /\ UNCHANGED <<calls, toWorker, toMain, nonSolverVars>>

\* `pyodide = await loadPyodide(...)` of call r completes
InitLoaded ==
    /\ worker.status = "running"
    /\ \E r \in 1..2 :
          /\ worker.init[r] = "loading"
          /\ worker' = [worker EXCEPT !.pyodide = r, !.init[r] = "packages"]
    /\ UNCHANGED <<hook, calls, toWorker, toMain, nonSolverVars>>

\* both loadPackage calls of call r complete; it posts {type: 'ready'}
InitReady ==
    /\ worker.status = "running"
    /\ \E r \in 1..2 :
          /\ worker.init[r] = "packages"
          /\ worker' = [worker EXCEPT !.pkgs = @ \cup {r}, !.init[r] = "ready",
                                      !.outcomes = @ + 1]
          /\ toMain' = Append(toMain, Reply("ready", 0, NoMessage, NoData))
    /\ UNCHANGED <<hook, calls, toWorker, nonSolverVars>>

\* an await of call r rejects (the CDN is unreachable); the catch posts the error
InitFail ==
    /\ worker.status = "running"
    /\ \E r \in 1..2 :
          /\ worker.init[r] \in {"loading", "packages"}
          /\ worker' = [worker EXCEPT !.init[r] = "error", !.outcomes = @ + 1]
          /\ toMain' = Append(toMain,
                 Reply("error", 0, <<"Pyodide init failed: ", "NetworkError">>, NoData))
    /\ UNCHANGED <<hook, calls, toWorker, nonSolverVars>>

\* the response the message handler will post for a solve request (lines 135-167)
SolveResponse(w, m) ==
    LET r == solveEquation(m.args, w.pyodide # 0, w.pyodide \in w.pkgs)
    IN IF r.ok THEN Reply("solve-result", m.req, NoMessage, r.data)
       ELSE Reply("error", m.req, r.message, NoData)

\* a handler without its catch block: a failed evaluation posts nothing
HandlerReplies_NoCatch(w, m) ==
    IF m.type = "init" THEN <<>>
    ELSE IF m.type = "solve"
         THEN (IF SolveResponse(w, m).type = "error" THEN <<>>
               ELSE <<SolveResponse(w, m)>>)
         ELSE <<Reply("error", m.req, <<"Unknown request type">>, NoData)>>

\* the messages the handler posts for request m (lines 129-168): none for
\* 'init', the solve-result or the caught error for 'solve', an error for any
\* other type
HandlerReplies(w, m) ==
    IF m.type = "init" THEN <<>>
    ELSE IF m.type = "solve" THEN <<SolveResponse(w, m)>>
    ELSE <<Reply("error", m.req, <<"Unknown request type">>, NoData)>>

\* the message handler takes the next request (lines 126-169)
WorkerReceive ==
    /\ worker.status = "running"
    /\ toWorker # <<>>
    /\ LET m == Head(toWorker)
           replies == HandlerReplies(worker, m)
       IN IF m.type = "init"
          THEN /\ worker' = StartInit(worker, 2)
               /\ UNCHANGED <<calls, toMain>>
          ELSE /\ calls' = [calls EXCEPT ![m.req].evalError =
                               IF replies # <<>> /\ replies[1].type = "error"
                               THEN replies[1].message ELSE @]
               /\ IF m.type = "solve" /\ worker.pyodide # 0
                  THEN \* the reply is posted when runPythonAsync has settled
                       /\ worker' = [worker EXCEPT !.evals = @ \o replies]
                       /\ UNCHANGED toMain
                  ELSE \* nothing is awaited before the reply is posted
                       /\ toMain' = toMain \o replies
                       /\ UNCHANGED worker
    /\ toWorker' = Tail(toWorker)
    /\ UNCHANGED <<hook, nonSolverVars>>

RemoveAt(q, i) == [k \in 1..(Len(q) - 1) |-> IF k < i THEN q[k] ELSE q[k + 1]]

\* `await pyodide.runPythonAsync(code)` of one request completes; the handler
\* posts its solve-result or its error
FinishSolve ==
    /\ worker.status = "running"
    /\ \E i \in 1..Len(worker.evals) :
          /\ worker' = [worker EXCEPT !.evals = RemoveAt(@, i),
                                      !.reordered = @ \/ i # 1]
          /\ toMain' = Append(toMain, worker.evals[i])
    /\ UNCHANGED <<hook, calls, toWorker, nonSolverVars>>

(***************************************************************************)
(* The background unit on its own: a main thread that posts any request at *)
(* any time and takes the replies as they come                             *)
(***************************************************************************)
\* a request of a type the handler does not know
UnknownMsg(id) == [type |-> "reset", req |-> id, args |-> NoArgs]

\* the main thread posts a request
ClientPost ==
    /\ worker.status \in {"starting", "running"}
    /\ \E i \in 1..MaxCalls : calls[i].status = "idle"
    /\ \E m \in { SolveMsg(FirstIdle, a) : a \in CallerArgs } \cup {UnknownMsg(FirstIdle)} :
          /\ calls' = [calls EXCEPT ![FirstIdle] =
                          [NoCall EXCEPT !.status = "pending", !.args = m.args,
                                         !.forwarded = TRUE]]
          /\ toWorker' = Append(toWorker, m)
    /\ UNCHANGED <<hook, worker, toMain, nonSolverVars>>

\* the main thread takes the next message of the unit
ClientTake ==
    /\ toMain # <<>>
    /\ LET m == Head(toMain)
       IN calls' = IF m.req = 0 THEN calls
                   ELSE [calls EXCEPT ![m.req] =
                            [@ EXCEPT !.status = IF m.type = "solve-result"
                                                 THEN "resolved" ELSE "rejected",
                                      !.error = m.message,
                                      !.data = m.data,
                                      !.settledBy = m.req]]
    /\ toMain' = Tail(toMain)
    /\ UNCHANGED <<hook, worker, toWorker, nonSolverVars>>

(***************************************************************************)
(* Numbers of the 2D renderer. A JavaScript number is a binary floating-   *)
(* point value: every operation returns the representable value nearest to *)
(* the exact result, ties to even. The model keeps that arithmetic with a  *)
(* significand of Precision bits; a value is written as an integer count   *)
(* of the smallest step 2^-FracBits (below 2^Precision steps every count   *)
(* is representable, as among subnormals; above, only every 2nd, 4th, ...) *)
(***************************************************************************)
Precision == 12     \* bits of the significand (53 in a JavaScript number)
FracBits == 6       \* the smallest step is 2^-FracBits

RECURSIVE Pow2(_)
Pow2(k) == IF k = 0 THEN 1 ELSE 2 * Pow2(k - 1)

Unit == Pow2(FracBits)              \* the count that stands for 1.0
MaxFinite == Pow2(Precision + 4)    \* magnitudes the model stays below

Abs(n) == IF n < 0 THEN -n ELSE n

\* a / d rounded to the nearest integer, ties to the even one (a >= 0, d > 0)
RoundHalfEven(a, d) ==
    LET q == a \div d
        r == a % d
    IN IF 2 * r < d THEN q
       ELSE IF 2 * r > d THEN q + 1
       ELSE IF q % 2 = 0 THEN q ELSE q + 1

\* the binary exponent of a / d: the least k >= 0 with a / d < 2^(Precision + k)
RECURSIVE Exponent(_, _, _)
Exponent(a, d, k) ==
    IF a < Pow2(Precision + k) * d THEN k ELSE Exponent(a, d, k + 1)

\* the representable value nearest to n / d
Round(n, d) ==
    LET a == Abs(n)
        k == Exponent(a, d, 0)
        m == RoundHalfEven(a, d * Pow2(k)) * Pow2(k)
    IN IF n < 0 THEN -m ELSE m

\* the spacing of representable values at magnitude n
Ulp(n) == Pow2(Exponent(Abs(n), 1, 0))

FAdd(a, b) == Round(a + b, 1)              \* a + b
FSub(a, b) == Round(a - b, 1)              \* a - b
FMul(a, b) == Round(a * b, Unit)           \* a * b
FHalf(a) == Round(a, 2)                    \* a / 2
FRatio(i, j) == Round(i * Unit, j)         \* i / j for integers i and j > 0
FScale(a, num, den) == Round(a * num, den) \* a * c for the literal c = num/den

(***************************************************************************)
(* Canvas2DRenderer (Canvas2DRenderer.tsx)                                 *)
(***************************************************************************)
MaxMutations == 3   \* pan moves and wheel events that mutate one viewport

Width == 8          \* the width prop, in pixels (800 by default)
Height == 4         \* the height prop, in pixels (600 by default)

\* where the pointer can be, as (clientX, clientY)
Pointers == {<<0, 0>>, <<2, 0>>, <<2, 1>>}

\* deltaY of a wheel event: scroll up, scroll down
WheelDeltas == {-1, 1}

PlotBounds(x0, x1, y0, y1) == [xMin |-> x0, xMax |-> x1, yMin |-> y0, yMax |-> y1]

\* the bounds props: the defaults -10, 10, -10, 10; a window far from the
\* origin, from -249.8 to -149.7 on both axes; and windows whose x-range is
\* two steps, or one step, of the numbers
DefaultBounds == PlotBounds(-10 * Unit, 10 * Unit, -10 * Unit, 10 * Unit)
BoundsProps ==
    { DefaultBounds,
      PlotBounds(Round(-2498 * Unit, 10), Round(-1497 * Unit, 10),
                 Round(-2498 * Unit, 10), Round(-1497 * Unit, 10)),
      PlotBounds(Pow2(Precision), Pow2(Precision) + 2, -10 * Unit, 10 * Unit),
      PlotBounds(Pow2(Precision) - 1, Pow2(Precision), -Unit, Unit) }

EquationProps == {"x**2", ""}

NoRequest == [equation |-> "", variable |-> "", xMin |-> 0, xMax |-> 0, numPoints |-> 0]

NoCanvas == [mounted |-> FALSE]

\* useState({xMin, xMax, yMin, yMax, panStartX: 0, panStartY: 0, isPanning: false})
ViewportInit(b) ==
    [ xMin |-> b.xMin, xMax |-> b.xMax, yMin |-> b.yMin, yMax |-> b.yMax,
      panStartX |-> 0, panStartY |-> 0, isPanning |-> FALSE ]

\* the component after its first render, the solver still loading
CanvasMounted(equation, b, pointer, solver) ==
    [ mounted     |-> TRUE,
      equation    |-> equation,
      viewport    |-> ViewportInit(b),
      pointer     |-> pointer,      \* where the pointer is
      solver      |-> solver,       \* "loading", "ready" or "failed" (the hook's state)
      renderError |-> FALSE,        \* renderError !== null
      requests    |-> 0,            \* calls of solve() the effect has made
      lastRequest |-> NoRequest,    \* arguments of the last one
      mutations   |-> 0,            \* viewport mutations so far
      pointerDown |-> FALSE,        \* a mousedown with no mouseup or mouseleave since
      trail       |-> <<>> ]        \* the mutations of the current run of events

\* the bounds of a viewport
BoundsOf(v) == PlotBounds(v.xMin, v.xMax, v.yMin, v.yMax)

Finite(v) ==
    /\ Abs(v.xMin) < MaxFinite /\ Abs(v.xMax) < MaxFinite
    /\ Abs(v.yMin) < MaxFinite /\ Abs(v.yMax) < MaxFinite

\* handleMouseDown(e)
handleMouseDown(v, e) ==
    [v EXCEPT !.isPanning = TRUE, !.panStartX = e[1], !.panStartY = e[2]]

\* mutant of handleMouseMove: the pan start is not moved along with the pointer
handleMouseMove_KeepsPanStart(v, e) ==
    IF ~v.isPanning THEN v
    ELSE LET dx == e[1] - v.panStartX
             dy == e[2] - v.panStartY
             xRange == FSub(v.xMax, v.xMin)
             yRange == FSub(v.yMax, v.yMin)
             xShift == -FMul(FRatio(dx, Width), xRange)
             yShift == FMul(FRatio(dy, Height), yRange)
         IN [v EXCEPT !.xMin = FAdd(@, xShift), !.xMax = FAdd(@, xShift),
                      !.yMin = FAdd(@, yShift), !.yMax = FAdd(@, yShift)]

\* mutant of handleMouseMove: without `if (!viewport.isPanning) return`
handleMouseMove_IgnoresPanning(v, e) ==
    LET dx == e[1] - v.panStartX
        dy == e[2] - v.panStartY
        xRange == FSub(v.xMax, v.xMin)
        yRange == FSub(v.yMax, v.yMin)
        xShift == -FMul(FRatio(dx, Width), xRange)
        yShift == FMul(FRatio(dy, Height), yRange)
    IN [v EXCEPT !.xMin = FAdd(@, xShift), !.xMax = FAdd(@, xShift),
                 !.yMin = FAdd(@, yShift), !.yMax = FAdd(@, yShift),
                 !.panStartX = e[1], !.panStartY = e[2]]

\* handleMouseMove(e): dx / width and dy / height are divisions of integers
handleMouseMove(v, e) ==
    IF ~v.isPanning THEN v
    ELSE LET dx == e[1] - v.panStartX
             dy == e[2] - v.panStartY
             xRange == FSub(v.xMax, v.xMin)
             yRange == FSub(v.yMax, v.yMin)
             xShift == -FMul(FRatio(dx, Width), xRange)
             yShift == FMul(FRatio(dy, Height), yRange)
         IN [v EXCEPT !.xMin = FAdd(@, xShift), !.xMax = FAdd(@, xShift),
                      !.yMin = FAdd(@, yShift), !.yMax = FAdd(@, yShift),
                      !.panStartX = e[1], !.panStartY = e[2]]

\* handleMouseUp(), also the handler of mouseleave
handleMouseUp(v) == [v EXCEPT !.isPanning = FALSE]

\* mutant of ZoomAxis: the range is scaled about its lower end
ZoomAxis_AboutLow(lo, hi, num, den) ==
    LET range    == FSub(hi, lo)
        newRange == FScale(range, num, den)
    IN [lo |-> lo, hi |-> FAdd(lo, newRange)]

\* one axis of handleWheel: the range scaled about its centre by num/den
ZoomAxis(lo, hi, num, den) ==
    LET range    == FSub(hi, lo)
        center   == FHalf(FAdd(lo, hi))
        newRange == FScale(range, num, den)
    IN [lo |-> FSub(center, FHalf(newRange)), hi |-> FAdd(center, FHalf(newRange))]

\* handleWheel(e): zoomFactor = e.deltaY > 0 ? 1.1 : 0.9
handleWheel(v, deltaY) ==
    LET num == IF deltaY > 0 THEN 11 ELSE 9
        x   == ZoomAxis(v.xMin, v.xMax, num, 10)
        y   == ZoomAxis(v.yMin, v.yMax, num, 10)
    IN [v EXCEPT !.xMin = x.lo, !.xMax = x.hi, !.yMin = y.lo, !.yMax = y.hi]

\* the component returns the <canvas> only past the loading and error returns
\* (lines 161-175): isLoading false, error null, renderError null
ShowsCanvas(c) == c.mounted /\ c.solver = "ready" /\ ~c.renderError

\* mutant of EvaluateDeps: the effect depends on the whole viewport
EvaluateDeps_WholeViewport(c) == <<c.solver = "ready", c.equation, c.viewport>>

\* the dependency list of the evaluate effect: [isReady, equation,
\* viewport.xMin, viewport.xMax, solve]; solve changes with isReady only
EvaluateDeps(c) == <<c.solver = "ready", c.equation, c.viewport.xMin, c.viewport.xMax>>

\* the render that follows a state change, and the evaluate effect (lines
\* 52-66): solve(equation, 'x', viewport.xMin, viewport.xMax, 200)
Rendered(old, new) ==
    IF EvaluateDeps(new) = EvaluateDeps(old) THEN new
    ELSE IF new.solver # "ready" \/ new.equation = "" THEN new
    ELSE [new EXCEPT !.requests = @ + 1,
                     !.lastRequest = [ equation |-> new.equation, variable |-> "x",
                                       xMin |-> new.viewport.xMin,
                                       xMax |-> new.viewport.xMax,
                                       numPoints |-> 200 ]]

\* one more mutation on the trail of the current run of events
Mutated(c, kind, dx, dy, v) ==
    [c EXCEPT !.viewport = v,
              !.mutations = @ + 1,
              !.trail = (IF Len(@) = 2 THEN Tail(@) ELSE @)
                            \o <<[ kind |-> kind, dx |-> dx, dy |-> dy,
                                   before |-> BoundsOf(c.viewport) ]>>]

\* the worker posts 'ready': isReady true, isLoading false
SolverReady ==
    /\ canvas.mounted /\ canvas.solver = "loading"
    /\ canvas' = Rendered(canvas, [canvas EXCEPT !.solver = "ready"])
    /\ UNCHANGED nonCanvasVars

\* the worker posts 'error', or fails to start: error set, isReady false
SolverFails ==
    /\ canvas.mounted /\ canvas.solver \in {"loading", "ready"}
    /\ canvas' = Rendered(canvas, [canvas EXCEPT !.solver = "failed"])
    /\ UNCHANGED nonCanvasVars

\* a solve() call of the effect is rejected: setRenderError(err.message)
SolveRejects ==
    /\ canvas.mounted /\ canvas.requests > 0 /\ ~canvas.renderError
    /\ canvas' = Rendered(canvas, [canvas EXCEPT !.renderError = TRUE])
    /\ UNCHANGED nonCanvasVars

\* mousedown on the canvas, where the pointer is
MouseDown ==
    /\ ShowsCanvas(canvas)
    /\ canvas' = Rendered(canvas,
                     [canvas EXCEPT !.viewport = handleMouseDown(@, canvas.pointer),
                                    !.pointerDown = TRUE,
                                    !.trail = <<>>])
    /\ UNCHANGED nonCanvasVars

\* the pointer moves over the canvas
MouseMove ==
    /\ ShowsCanvas(canvas)
    /\ \E to \in Pointers \ {canvas.pointer} :
          LET v == handleMouseMove(canvas.viewport, to)
              c == [canvas EXCEPT !.pointer = to]
          IN IF ~canvas.viewport.isPanning
             THEN canvas' = Rendered(canvas, [c EXCEPT !.viewport = v])
             ELSE /\ canvas.mutations < MaxMutations
                  /\ Finite(v)
                  /\ canvas' = Rendered(canvas,
                                   Mutated(c, "pan", to[1] - canvas.pointer[1],
                                           to[2] - canvas.pointer[2], v))
    /\ UNCHANGED nonCanvasVars

\* mouseup on the canvas
MouseUp ==
    /\ ShowsCanvas(canvas)
    /\ canvas' = Rendered(canvas, [canvas EXCEPT !.viewport = handleMouseUp(@),
                                                 !.pointerDown = FALSE,
                                                 !.trail = <<>>])
    /\ UNCHANGED nonCanvasVars

\* the pointer leaves the canvas: onMouseLeave={handleMouseUp}
MouseLeave ==
    /\ ShowsCanvas(canvas)
    /\ \E to \in Pointers :
          canvas' = Rendered(canvas, [canvas EXCEPT !.viewport = handleMouseUp(@),
                                                    !.pointer = to,
                                                    !.pointerDown = FALSE,
                                                    !.trail = <<>>])
    /\ UNCHANGED nonCanvasVars

\* a wheel event on the canvas
Wheel ==
    /\ ShowsCanvas(canvas)
    /\ canvas.mutations < MaxMutations
    /\ \E deltaY \in WheelDeltas :
          LET v == handleWheel(canvas.viewport, deltaY)
          IN /\ Finite(v)
             /\ canvas' = Rendered(canvas,
                              Mutated(canvas, IF deltaY > 0 THEN "out" ELSE "in",
                                      0, deltaY, v))
    /\ UNCHANGED nonCanvasVars

(***************************************************************************)
(* Canvas2DRenderer with the solver it calls: the evaluate effect (lines   *)
(* 52-66) and the requests it has in flight. The viewport is reduced to    *)
(* its x-range, and a pan or zoom to the change of that range.             *)
(***************************************************************************)
\* the x-ranges the viewport takes
PlotRanges == {<<-1, 1>>, <<0, 2>>}

\* solve(equation, 'x', viewport.xMin, viewport.xMax, 200), with 3 points for 200
PlotArgs(r) ==
    [equation |-> "x**2", variable |-> "x", xMin |-> r[1], xMax |-> r[2], numPoints |-> 3]

\* the values the evaluate effect depends on: [isReady, equation,
\* viewport.xMin, viewport.xMax, solve]
PlotDepsOf(h, r) == <<h.state.isReady, r>>

\* useState(null) for plotData and for renderError; the effect has run once,
\* at mount, and returned on `!isReady`
PlotInit(r) ==
    [ range       |-> r,
      deps        |-> <<FALSE, r>>,   \* the values the effect last ran with
      plotData    |-> NoData,
      renderError |-> NoMessage ]

NoPlot == PlotInit(<<0, 0>>)

\* the component returns the <canvas> (lines 161-175)
PlotShowsCanvas ==
    /\ hook.mounted
    /\ ~hook.state.isLoading
    /\ hook.state.error = NoMessage
    /\ plot.renderError = NoMessage

\* the continuations of `await solve(...)` for the calls a dispatch settled, in
\* the order of their listeners: setPlotData(result) or setRenderError(message)
RECURSIVE Continue(_, _, _, _)
Continue(p, before, after, i) ==
    IF i > MaxCalls THEN p
    ELSE LET settled == before[i].status = "pending" /\ after[i].status # "pending"
             q == IF settled /\ after[i].status = "resolved"
                  THEN [p EXCEPT !.plotData = after[i].data]
                  ELSE IF settled /\ after[i].status = "rejected"
                       THEN [p EXCEPT !.renderError = after[i].error]
                       ELSE p
         IN Continue(q, before, after, i + 1)

\* a pan or zoom that changes the x-range
PlotPanZoom ==
    /\ PlotShowsCanvas
    /\ plot.deps = PlotDepsOf(hook, plot.range)
    /\ \E i \in 1..MaxCalls : calls[i].status = "idle"
    /\ \E r \in PlotRanges \ {plot.range} : plot' = [plot EXCEPT !.range = r]
    /\ UNCHANGED <<solverVars, nonPlotVars>>

\* the evaluate effect runs after a render in which its dependencies changed
PlotEffect ==
    /\ hook.mounted
    /\ plot.deps # PlotDepsOf(hook, plot.range)
    /\ IF ~hook.state.isReady
       THEN /\ plot' = [plot EXCEPT !.deps = PlotDepsOf(hook, plot.range)]
            /\ UNCHANGED <<hook, calls, toWorker>>
       ELSE /\ \E i \in 1..MaxCalls : calls[i].status = "idle"
            /\ SolveCall(PlotArgs(plot.range))
            /\ plot' = [plot EXCEPT
                           !.deps = PlotDepsOf(hook, plot.range),
                           !.renderError = IF SolveGuard(hook)
                                           THEN <<"Solver not ready">> ELSE NoMessage]
    /\ UNCHANGED <<worker, toMain, nonPlotVars>>

\* a message of the worker is dispatched, and the awaits it settles go on
PlotDeliver ==
    /\ Dispatch
    /\ plot' = Continue(plot, calls, calls', 1)
    /\ UNCHANGED <<worker, toWorker, nonPlotVars>>

(***************************************************************************)
(* Shader validator and optimizer (lib/shader-optimizer.ts)                *)
(*                                                                         *)
(* A shader source is a sequence of tokens: words, numeric literals and    *)
(* punctuation marks, with white space between them.  The regular          *)
(* expressions of the source are matched token by token: \s* and \s+ match *)
(* the white space between two tokens, \w+ one word, [\d.]+ one literal.   *)
(***************************************************************************)
MaxFragments == 3   \* statements one shader source is made of
MaxPasses == 2      \* times optimizeShader is applied to its own output

ShaderKinds == {"vertex", "fragment"}

\* the tokens \w+ matches, and the tokens [\d.]+ matches
Words == {"precision", "highp", "mediump", "lowp", "float", "gl_Position",
          "x", "y", "z", "if", "else", "for", "sin", "cos", "pow", "exp", "log",
          "mix", "step"}
Numbers == {"0.5", "1.0", "0.0"}

\* the number of matches of /\bword\s*\(/g in s
CallCount(s, word) ==
    Cardinality({ i \in 1..(Len(s) - 1) : s[i] = word /\ s[i + 1] = "(" })

\* /precision\s+qualifier/.test(s)
HasQualifier(s, qualifier) ==
    \E i \in 1..(Len(s) - 1) : s[i] = "precision" /\ s[i + 1] = qualifier

\* /gl_Position\s*=/.test(s)
WritesPosition(s) ==
    \E i \in 1..(Len(s) - 1) : s[i] = "gl_Position" /\ s[i + 1] = "="

\* the functions validateShader looks for, in the order it reports them
ExpensiveOps == <<"pow", "exp", "log", "sin", "cos">>

Warning(about, count) == [about |-> about, count |-> count]

\* the warning for one of the expensive operations, if it has one
RECURSIVE ExpensiveWarnings(_, _)
ExpensiveWarnings(s, k) ==
    IF k > Len(ExpensiveOps) THEN <<>>
    ELSE (IF CallCount(s, ExpensiveOps[k]) > 2
          THEN <<Warning(ExpensiveOps[k], CallCount(s, ExpensiveOps[k]))>>
          ELSE <<>>)
         \o ExpensiveWarnings(s, k + 1)

MissingPrecision == "Missing precision qualifier"
PositionNeedsHighp == "gl_Position calculations require precision highp float"

ValidationOf(errors, warnings) ==
    [isValid |-> Len(errors) = 0, errors |-> errors, warnings |-> warnings]

\* a validator that lets the warnings decide as well
validateShader_WarningsCount(s, type) ==
    LET hasHighp == HasQualifier(s, "highp")
        hasMediump == HasQualifier(s, "mediump")
        errors ==
            (IF ~hasHighp /\ ~hasMediump THEN <<MissingPrecision>> ELSE <<>>)
            \o (IF type = "vertex" /\ WritesPosition(s) /\ ~hasHighp
                THEN <<PositionNeedsHighp>> ELSE <<>>)
        warnings ==
            IF CallCount(s, "for") > 0
            THEN <<Warning("for", CallCount(s, "for"))>> ELSE <<>>
    IN  [isValid |-> Len(errors) = 0 /\ Len(warnings) = 0,
         errors |-> errors, warnings |-> warnings]

\* validateShader(shaderCode, type)
validateShader(s, type) ==
    LET hasHighp == HasQualifier(s, "highp")
        hasMediump == HasQualifier(s, "mediump")
        errors ==
            (IF ~hasHighp /\ ~hasMediump THEN <<MissingPrecision>> ELSE <<>>)
            \o (IF type = "vertex" /\ WritesPosition(s) /\ ~hasHighp
                THEN <<PositionNeedsHighp>> ELSE <<>>)
        warnings ==
            (IF type = "fragment" /\ CallCount(s, "if") > 0
             THEN <<Warning("if", CallCount(s, "if"))>> ELSE <<>>)
            \o (IF type = "fragment" THEN ExpensiveWarnings(s, 1) ELSE <<>>)
            \o (IF CallCount(s, "for") > 0
                THEN <<Warning("for", CallCount(s, "for"))>> ELSE <<>>)
    IN  ValidationOf(errors, warnings)

\* /precision\s+(highp|mediump)/.test(s)
HasPrecision(s) == HasQualifier(s, "highp") \/ HasQualifier(s, "mediump")

\* the line optimizeShader prepends
PrecisionLine(qualifier) == <<"precision", qualifier, "float", ";">>

\* simpleIfElse matches at token i:
\*   if ( v > k ) t = a ; else t = b ;
SimpleIfElseLen == 15
SimpleIfElseAt(s, i) ==
    /\ i + SimpleIfElseLen - 1 <= Len(s)
    /\ s[i] = "if" /\ s[i + 1] = "("
    /\ s[i + 2] \in Words /\ s[i + 3] = ">" /\ s[i + 4] \in Numbers
    /\ s[i + 5] = ")"
    /\ s[i + 6] \in Words /\ s[i + 7] = "=" /\ s[i + 8] \in Numbers
    /\ s[i + 9] = ";"
    /\ s[i + 10] = "else"
    /\ s[i + 11] = s[i + 6] /\ s[i + 12] = "=" /\ s[i + 13] \in Numbers
    /\ s[i + 14] = ";"

\* the replacement callback: target = mix(falseVal, trueVal, step(threshold, variable));
MixStep(variable, threshold, target, trueVal, falseVal) ==
    <<target, "=", "mix", "(", falseVal, ",", trueVal, ",",
      "step", "(", threshold, ",", variable, ")", ")", ";">>

\* t = mix(b, a, step(k, v)); at token i
MixStepAt(s, i) ==
    /\ i + 15 <= Len(s)
    /\ SubSeq(s, i, i + 15) = MixStep(s[i + 12], s[i + 10], s[i], s[i + 6], s[i + 4])

\* String.prototype.replace with the global simpleIfElse: matches are taken
\* from left to right and do not overlap
RECURSIVE ReplaceSimpleIfElse(_, _)
ReplaceSimpleIfElse(s, i) ==
    IF i > Len(s) THEN <<>>
    ELSE IF SimpleIfElseAt(s, i)
         THEN MixStep(s[i + 2], s[i + 4], s[i + 6], s[i + 8], s[i + 13])
              \o ReplaceSimpleIfElse(s, i + SimpleIfElseLen)
         ELSE <<s[i]>> \o ReplaceSimpleIfElse(s, i + 1)

\* an optimizer that prepends its line whatever the source declares
optimizeShader_AlwaysPrepends(s, type) ==
    ReplaceSimpleIfElse(
        PrecisionLine(IF type = "vertex" THEN "highp" ELSE "mediump") \o s, 1)

\* an optimizer that replaces the first match only (no g flag)
optimizeShader_FirstMatchOnly(s, type) ==
    LET optimized ==
            IF ~HasPrecision(s)
            THEN PrecisionLine(IF type = "vertex" THEN "highp" ELSE "mediump") \o s
            ELSE s
        hits == { i \in 1..Len(optimized) : SimpleIfElseAt(optimized, i) }
    IN  IF hits = {} THEN optimized
        ELSE LET i == CHOOSE h \in hits : \A g \in hits : h <= g
             IN  SubSeq(optimized, 1, i - 1)
                 \o MixStep(optimized[i + 2], optimized[i + 4], optimized[i + 6],
                            optimized[i + 8], optimized[i + 13])
                 \o SubSeq(optimized, i + SimpleIfElseLen, Len(optimized))

\* optimizeShader(shaderCode, type)
optimizeShader(s, type) ==
    LET optimized ==
            IF ~HasPrecision(s)
            THEN PrecisionLine(IF type = "vertex" THEN "highp" ELSE "mediump") \o s
            ELSE s
    IN  ReplaceSimpleIfElse(optimized, 1)

\* the statements shader sources are made of
IfThen == <<"if", "(", "x", ">", "0.5", ")", "y", "=", "1.0", ";">>
ElseAssign(target) == <<"else", target, "=", "0.0", ";">>
ElseNegative == <<"else", "y", "=", "-", "1.0", ";">>
PositionWrite == <<"gl_Position", "=", "x", ";">>
CallOf(f) == <<"y", "=", f, "(", "x", ")", ";">>
ForLoop == <<"for", "(", ";", ";", ")", ";">>

\* among them: the conditional optimizeShader rewrites, conditionals it does
\* not (two targets, a signed literal), and the parts of an else-if chain
Fragments ==
    { PrecisionLine(q) : q \in {"highp", "mediump", "lowp"} }
    \cup { PositionWrite, ForLoop, IfThen, <<"else">>, IfThen \o ElseNegative }
    \cup { IfThen \o ElseAssign(t) : t \in {"y", "z"} }
    \cup { CallOf(f) : f \in {"sin", "cos", "pow"} }

RECURSIVE Sources(_)
Sources(n) ==
    IF n = 0 THEN {<<>>}
    ELSE Sources(n - 1)
         \cup { s \o f : s \in Sources(n - 1), f \in Fragments }

NoValidation == [isValid |-> FALSE, errors |-> <<"none">>, warnings |-> <<>>]

\* no execution of the shader: x not set, nothing assigned
NoRun == [ran |-> FALSE, x |-> 0, source |-> 0, text |-> 0]

NoShader == [source |-> <<>>, kind |-> "none", text |-> <<>>, previous |-> <<>>,
             passes |-> 0, validated |-> FALSE, validation |-> NoValidation,
             run |-> NoRun]

ShaderOf(source, kind) ==
    [NoShader EXCEPT !.source = source, !.kind = kind, !.text = source]

\* validateShader is called on the current text
Validate ==
    /\ shader.kind \in ShaderKinds
    /\ ~shader.validated
    /\ shader' = [shader EXCEPT !.validated = TRUE,
                                !.validation = validateShader(shader.text, shader.kind)]
    /\ UNCHANGED nonShaderVars

\* optimizeShader is called on the current text, and its output becomes the text
Optimize ==
    /\ shader.kind \in ShaderKinds
    /\ shader.passes < MaxPasses
    /\ shader' = [shader EXCEPT !.previous = shader.text,
                                !.text = optimizeShader(shader.text, shader.kind),
                                !.passes = @ + 1,
                                !.validated = FALSE,
                                !.validation = NoValidation,
                                !.run = NoRun]
    /\ UNCHANGED nonShaderVars

(***************************************************************************)
(* What the statements compute on the GPU. Floats are counted in halves:   *)
(* the literals 0.0, 0.5 and 1.0, and the values x is given.               *)
(***************************************************************************)
MaxInput == 3       \* x ranges over 0.0, 0.5, ..., MaxInput / 2

NumberValue(literal) ==
    CASE literal = "0.0" -> 0
      [] literal = "0.5" -> 1
      [] literal = "1.0" -> 2

\* GLSL step(edge, x): 0.0 if x < edge, 1.0 otherwise ("returns 0 if variable
\* < threshold, 1 if variable >= threshold")
GlslStep(edge, x) == IF x < edge THEN NumberValue("0.0") ELSE NumberValue("1.0")

\* GLSL mix(x, y, a) = x * (1 - a) + y * a
GlslMix(x, y, a) ==
    (x * (NumberValue("1.0") - a) + y * a) \div NumberValue("1.0")

\* if (x > k) y = a; else y = b;
Conditional(k, a, b) ==
    <<"if", "(", "x", ">", k, ")", "y", "=", a, ";", "else", "y", "=", b, ";">>

\* the value the first conditional or mix/step statement of s assigns to its
\* target when its variable holds v; -1 if s has neither
Assigned(s, v) ==
    LET at == { i \in 1..Len(s) : SimpleIfElseAt(s, i) \/ MixStepAt(s, i) }
    IN  IF at = {} THEN -1
        ELSE LET i == CHOOSE h \in at : \A g \in at : h <= g
             IN  IF SimpleIfElseAt(s, i)
                 THEN (IF v > NumberValue(s[i + 4]) THEN NumberValue(s[i + 8])
                       ELSE NumberValue(s[i + 13]))
                 ELSE GlslMix(NumberValue(s[i + 4]), NumberValue(s[i + 6]),
                              GlslStep(NumberValue(s[i + 10]), v))

\* the source and the optimized text are both run with x = v
Execute ==
    /\ shader.kind \in ShaderKinds
    /\ shader.passes > 0
    /\ \E v \in 0..MaxInput :
          shader' = [shader EXCEPT !.run = [ ran    |-> TRUE,
                                             x      |-> v,
                                             source |-> Assigned(shader.source, v),
                                             text   |-> Assigned(shader.text, v) ]]
    /\ UNCHANGED nonShaderVars

(***************************************************************************)
(* Specifications                                                          *)
(***************************************************************************)
\* the detector called directly, in every environment
InitDetect ==
    /\ env \in Envs
    /\ InitHost
    /\ provider = ProviderUnmounted
    /\ gpu = GpuUnmounted
    /\ InitSolver
    /\ InitSample
    /\ InitConsumer
    /\ shader = NoShader
    /\ plot = NoPlot
    /\ canvas = NoCanvas

NextDetect == CallDetect \/ HostDprChange

SpecDetect == InitDetect /\ [][NextDetect]_vars

\* browser sessions: one environment per graphics tier
ClientEnvs ==
    { e \in Envs : /\ e.hasWindow /\ e.hasDocument
                   /\ ~e.experimental /\ e.debugInfo /\ e.renderer = "Mali-G78"
                   /\ e.instancedArrays /\ e.ctx2d /\ e.imageData = "ok"
                   /\ e.maxTextureSize = 4096 }

InitUI ==
    /\ env \in ClientEnvs
    /\ InitHost
    /\ provider = ProviderUnmounted
    /\ gpu = GpuUnmounted
    /\ InitSolver
    /\ InitSample
    /\ InitConsumer
    /\ shader = NoShader
    /\ plot = NoPlot
    /\ canvas = NoCanvas

NextUI ==
    \/ HostDprChange
    \/ ProviderMount
    \/ MediaQueryChange
    \/ ProviderUnmount
    \/ GpuMount
    \/ GpuRerun
    \/ GpuUnmount
    \/ Frame
    \/ StaleFrame

SpecUI == InitUI /\ [][NextUI]_vars

\* the same sessions with the browser's event loop running: a 'change' event
\* the media query owes is dispatched, it is not withheld for ever
SpecUIFair == SpecUI /\ WF_vars(MediaQueryChange)

\* the detector called directly and through a provider, in browser sessions
\* and on the server
RatioEnvs ==
    { e \in Envs : /\ ~e.experimental /\ e.debugInfo /\ e.renderer = "Mali-G78"
                   /\ e.instancedArrays /\ e.ctx2d /\ e.imageData = "ok"
                   /\ e.maxTextureSize = 4096 }

InitRatio ==
    /\ env \in RatioEnvs
    /\ InitHost
    /\ provider = ProviderUnmounted
    /\ gpu = GpuUnmounted
    /\ InitSolver
    /\ InitSample
    /\ InitConsumer
    /\ shader = NoShader
    /\ plot = NoPlot
    /\ canvas = NoCanvas

NextRatio ==
    \/ CallDetect
    \/ HostDprChange
    \/ ProviderMount
    \/ MediaQueryChange
    \/ ProviderUnmount

SpecRatio == InitRatio /\ [][NextRatio]_vars

\* the provider and the components that read its context
NextAccessor ==
    \/ HostDprChange
    \/ ProviderMount
    \/ MediaQueryChange
    \/ ProviderUnmount
    \/ RenderConsumer

SpecAccessor == InitUI /\ [][NextAccessor]_vars

\* a provider from its first render on, in the browser and on the server,
\* and the components that read its context
NextProvider ==
    \/ HostDprChange
    \/ ProviderFirstRender
    \/ ProviderEffect
    \/ MediaQueryChange
    \/ ProviderUnmount
    \/ RenderConsumer

SpecProvider == InitRatio /\ [][NextProvider]_vars

\* one consuming component, its hook and its worker
IdleEnv == CHOOSE e \in ClientEnvs : e.webgl2 /\ e.webgl

InitIdleUI ==
    /\ env = IdleEnv
    /\ hostDpr = Dpr(1)
    /\ detectResult = [called |-> FALSE, threw |-> FALSE, value |-> NoCaps]
    /\ provider = ProviderUnmounted
    /\ gpu = GpuUnmounted

InitSolverSpec ==
    /\ InitIdleUI
    /\ InitSolver
    /\ InitSample
    /\ InitConsumer
    /\ shader = NoShader
    /\ plot = NoPlot
    /\ canvas = NoCanvas

NextSolver ==
    \/ HookMount
    \/ RunCleanup
    \/ Solve
    \/ DeliverToMain
    \/ WorkerStart
    \/ WorkerErrorEvent
    \/ InitLoaded
    \/ InitReady
    \/ InitFail
    \/ WorkerReceive
    \/ FinishSolve

SpecSolver == InitSolverSpec /\ [][NextSolver]_vars

\* the same with both event loops running: a message that was posted is
\* handled, an evaluation that was started completes, a worker that was
\* created runs its script (or fails to)
SpecSolverFair ==
    /\ SpecSolver
    /\ WF_vars(WorkerStart \/ WorkerErrorEvent)
    /\ WF_vars(WorkerReceive)
    /\ WF_vars(FinishSolve)
    /\ WF_vars(DeliverToMain)

\* the 2D renderer from its mount on, with the solver's lifecycle
InitCanvasSpec ==
    /\ InitIdleUI
    /\ InitSolver
    /\ InitSample
    /\ InitConsumer
    /\ shader = NoShader
    /\ plot = NoPlot
    /\ canvas \in { CanvasMounted(eq, DefaultBounds, p, "loading") :
                        eq \in EquationProps, p \in Pointers }

NextCanvas ==
    \/ SolverReady
    \/ SolverFails
    \/ SolveRejects
    \/ MouseDown
    \/ MouseMove
    \/ MouseUp
    \/ MouseLeave
    \/ Wheel

SpecCanvas == InitCanvasSpec /\ [][NextCanvas]_vars

\* the viewport of a 2D renderer that shows its canvas, for every bounds prop
InitViewportSpec ==
    /\ InitIdleUI
    /\ InitSolver
    /\ InitSample
    /\ InitConsumer
    /\ shader = NoShader
    /\ plot = NoPlot
    /\ canvas \in { CanvasMounted("x**2", b, <<0, 0>>, "ready") : b \in BoundsProps }

NextViewport ==
    \/ MouseDown
    \/ MouseMove
    \/ MouseUp
    \/ MouseLeave
    \/ Wheel

SpecViewport == InitViewportSpec /\ [][NextViewport]_vars

\* solveEquation applied to every request in the bounds
InitSampleSpec ==
    /\ InitIdleUI
    /\ InitSolver
    /\ InitSample
    /\ InitConsumer
    /\ shader = NoShader
    /\ plot = NoPlot
    /\ canvas = NoCanvas

NextSampleSpec == Evaluate \/ NextSample

SpecSample == InitSampleSpec /\ [][NextSampleSpec]_vars

\* the lifecycle of the background unit over several mounts of the component
CycleMount == HookMountUpTo(MaxCycles)

NextCycles ==
    \/ CycleMount
    \/ RunCleanup
    \/ WorkerStart
    \/ WorkerErrorEvent
    \/ InitLoaded
    \/ InitReady
    \/ InitFail
    \/ WorkerReceive
    \/ DeliverToMain

SpecCycles == InitSolverSpec /\ [][NextCycles]_vars

\* the background unit from `new Worker(...)` on, the 'init' message posted
InitWorkerSpec ==
    /\ InitIdleUI
    /\ hook = HookInit
    /\ calls = [i \in 1..MaxCalls |-> NoCall]
    /\ worker = [WorkerNone EXCEPT !.status = "starting"]
    /\ toWorker = <<InitMsg>>
    /\ toMain = <<>>
    /\ InitSample
    /\ InitConsumer
    /\ canvas = NoCanvas
    /\ shader = NoShader
    /\ plot = NoPlot

NextWorker ==
    \/ ClientPost
    \/ ClientTake
    \/ WorkerStart
    \/ InitLoaded
    \/ InitReady
    \/ InitFail
    \/ WorkerReceive
    \/ FinishSolve

\* the unit's event loop runs, and so does the main thread's
SpecWorker ==
    /\ InitWorkerSpec
    /\ [][NextWorker]_vars
    /\ WF_vars(WorkerStart)
    /\ WF_vars(WorkerReceive)
    /\ WF_vars(FinishSolve)
    /\ WF_vars(ClientTake)

\* the 2D renderer with its hook and its worker, from the mount on
InitPlotSpec ==
    /\ InitIdleUI
    /\ InitSolver
    /\ InitSample
    /\ InitConsumer
    /\ canvas = NoCanvas
    /\ shader = NoShader
    /\ plot \in { PlotInit(r) : r \in PlotRanges }

NextPlot ==
    \/ HookMount
    \/ WorkerStart
    \/ WorkerErrorEvent
    \/ InitLoaded
    \/ InitReady
    \/ InitFail
    \/ WorkerReceive
    \/ FinishSolve
    \/ PlotEffect
    \/ PlotPanZoom
    \/ PlotDeliver

SpecPlot == InitPlotSpec /\ [][NextPlot]_vars

\* the shader tools applied to every source in the bounds
InitShaderSpec ==
    /\ InitIdleUI
    /\ InitSolver
    /\ InitSample
    /\ InitConsumer
    /\ canvas = NoCanvas
    /\ shader \in { ShaderOf(s, k) : s \in Sources(MaxFragments), k \in ShaderKinds }
    /\ plot = NoPlot

NextShader == Validate \/ Optimize

SpecShader == InitShaderSpec /\ [][NextShader]_vars

\* every conditional of the rewritten form, optimized and run
InitRewriteSpec ==
    /\ InitIdleUI
    /\ InitSolver
    /\ InitSample
    /\ InitConsumer
    /\ canvas = NoCanvas
    /\ shader \in { ShaderOf(Conditional(k, a, b), kind) :
                        k \in Numbers, a \in Numbers, b \in Numbers,
                        kind \in ShaderKinds }
    /\ plot = NoPlot

NextRewrite == Optimize \/ Execute

SpecRewrite == InitRewriteSpec /\ [][NextRewrite]_vars

(***************************************************************************)
(* Properties of the 2D renderer with its solver                           *)
(***************************************************************************)
\* nothing of a Solve request is left anywhere between renderer and worker
NoSolveInFlight ==
    /\ \A i \in 1..MaxCalls : calls[i].status # "pending"
    /\ toWorker = <<>> /\ worker.evals = <<>> /\ toMain = <<>>

\* the last solve() call the renderer has made
LastCall ==
    CHOOSE i \in 1..MaxCalls :
        /\ calls[i].status # "idle"
        /\ \A j \in (i + 1)..MaxCalls : calls[j].status = "idle"

\* C27: whenever no Solve request is in flight and the last request succeeded,
\* the plotted data is the result computed for the current viewport
\* [xMin, xMax], also when the viewport changed faster than the responses came.
C27_PlotShowsCurrentRange ==
    (/\ PlotShowsCanvas
     /\ plot.deps = PlotDepsOf(hook, plot.range)
     /\ \E i \in 1..MaxCalls : calls[i].status # "idle"
     /\ NoSolveInFlight
     /\ calls[LastCall].status = "resolved")
        => plot.plotData = solveEquation(PlotArgs(plot.range), TRUE, TRUE).data

(***************************************************************************)
(* Properties of the shader validator and optimizer                        *)
(***************************************************************************)
\* C21: validateShader returns isValid = FALSE exactly when the source declares
\* neither highp nor mediump precision, or the kind is vertex and the source
\* assigns gl_Position without declaring highp; isValid is TRUE exactly when
\* errors is empty, whatever the warnings are.
C21_InvalidExactlyOnErrors ==
    shader.validated =>
        LET r == shader.validation
            s == shader.text
            noPrecision == ~HasQualifier(s, "highp") /\ ~HasQualifier(s, "mediump")
            lowPosition == /\ shader.kind = "vertex"
                           /\ WritesPosition(s)
                           /\ ~HasQualifier(s, "highp")
        IN  /\ (r.isValid = FALSE) <=> (noPrecision \/ lowPosition)
            /\ (r.isValid = TRUE) <=> (r.errors = <<>>)

\* a vertex shader that declares mediump only and assigns gl_Position has been
\* validated, and one with warnings only has been found valid
C21_Witness ==
    /\ shader.validated
    /\ shader.kind = "vertex"
    /\ HasQualifier(shader.text, "mediump")
    /\ WritesPosition(shader.text)
    /\ ~shader.validation.isValid
    /\ shader.validation.warnings # <<>>

\* the number of matches of /precision\s+\w+\s+float;/g in s
PrecisionDeclarations(s) ==
    Cardinality({ i \in 1..(Len(s) - 3) :
                    /\ s[i] = "precision" /\ s[i + 1] \in Words
                    /\ s[i + 2] = "float" /\ s[i + 3] = ";" })

\* C22: optimizeShader is idempotent: applied to its own output it returns that
\* output; a source without a precision declaration has exactly one after one
\* application and exactly one after two.
C22_OptimizeIdempotent ==
    /\ shader.passes >= 2 => shader.text = shader.previous
    /\ (shader.passes >= 1 /\ PrecisionDeclarations(shader.source) = 0)
           => PrecisionDeclarations(shader.text) = 1

\* optimizeShader has been applied twice to a source without a precision
\* declaration that holds the conditional it rewrites
C22_Witness ==
    /\ shader.passes = 2
    /\ PrecisionDeclarations(shader.source) = 0
    /\ \E i \in 1..Len(shader.source) : SimpleIfElseAt(shader.source, i)
    /\ shader.text = shader.previous

\* every t = mix(b, a, step(k, v)); written back as if (v > k) t = a; else t = b;
RECURSIVE Unmix(_, _)
Unmix(s, i) ==
    IF i > Len(s) THEN <<>>
    ELSE IF MixStepAt(s, i)
         THEN <<"if", "(", s[i + 12], ">", s[i + 10], ")", s[i], "=", s[i + 6], ";",
                "else", s[i], "=", s[i + 4], ";">>
              \o Unmix(s, i + 16)
         ELSE <<s[i]>> \o Unmix(s, i + 1)

HasSimpleIfElse(s) == \E i \in 1..Len(s) : SimpleIfElseAt(s, i)

RECURSIVE ExpensiveCalls(_, _)
ExpensiveCalls(s, k) ==
    IF k > Len(ExpensiveOps) THEN 0
    ELSE CallCount(s, ExpensiveOps[k]) + ExpensiveCalls(s, k + 1)

\* C24: validateShader on a fragment shader with more than two calls of pow,
\* exp, log, sin and cos, counted together, returns at least one warning.
C24_ThreeExpensiveCallsWarn ==
    (/\ shader.validated
     /\ shader.kind = "fragment"
     /\ ExpensiveCalls(shader.text, 1) > 2)
        => shader.validation.warnings # <<>>

(***************************************************************************)
(* Properties of the capability detector                                   *)
(***************************************************************************)
\* a graphics context can only be obtained where window and document exist
HasDom == env.hasWindow /\ env.hasDocument
WebGL2Obtainable == HasDom /\ env.webgl2
WebGL1Obtainable == HasDom /\ (env.webgl \/ env.experimental)

\* C1: in every runtime environment detectDeviceCapabilities() returns a
\* DeviceCapabilities without raising, and in it renderPath is
\* CANVAS_2D_FALLBACK if and only if webglVersion is 0.
C1_DetectNeverRaises ==
    detectResult.called =>
        /\ ~detectResult.threw
        /\ detectResult.value.renderPath \in RenderCapability
        /\ (detectResult.value.renderPath = "CANVAS_2D_FALLBACK")
               <=> (detectResult.value.webglVersion = 0)

\* the detector has run where the pixel-buffer allocation throws
C1_Witness ==
    /\ detectResult.called
    /\ HasDom /\ env.ctx2d /\ env.imageData = "throw"
    /\ ~WebGL2Obtainable /\ ~WebGL1Obtainable
    /\ detectResult.value.renderPath = "CANVAS_2D_FALLBACK"
    /\ detectResult.value.estimatedRAM = 512

\* C2: strict priority order. WebGL2 obtainable gives WEBGL_2_OPTIMIZED, 2,
\* instancing true, whether or not WebGL1 is obtainable too; otherwise WebGL1
\* obtainable gives WEBGL_LEGACY, 1, instancing = presence of the extension;
\* otherwise CANVAS_2D_FALLBACK, 0, gpuMemoryMB 0, maxTextureSize 0, no instancing.
C2_PriorityOrder ==
    detectResult.called =>
        LET c == detectResult.value
        IN CASE WebGL2Obtainable ->
                  /\ c.renderPath = "WEBGL_2_OPTIMIZED"
                  /\ c.webglVersion = 2
                  /\ c.supportsInstancing
             [] ~WebGL2Obtainable /\ WebGL1Obtainable ->
                  /\ c.renderPath = "WEBGL_LEGACY"
                  /\ c.webglVersion = 1
                  /\ c.supportsInstancing = env.instancedArrays
             [] OTHER ->
                  /\ c.renderPath = "CANVAS_2D_FALLBACK"
                  /\ c.webglVersion = 0
                  /\ c.gpuMemoryMB = 0
                  /\ c.maxTextureSize = 0
                  /\ ~c.supportsInstancing

\* both contexts are obtainable, the extension is absent, and the detector ran
C2_Witness ==
    /\ detectResult.called
    /\ WebGL2Obtainable /\ WebGL1Obtainable /\ ~env.instancedArrays
    /\ detectResult.value.renderPath = "WEBGL_2_OPTIMIZED"

C14_NoFrameAfterTeardown == gpu.staleFrames = 0

C16_PixelRatioCappedAtTwo ==
    (gpu.mounted /\ provider.mounted /\ gpu.scene.built
        /\ gpu.seen = provider.snapshots) =>
        LET reported == provider.capabilities.devicePixelRatio
        IN /\ reported <= Dpr(2) => gpu.scene.pixelRatio = reported
           /\ reported >= Dpr(2) => gpu.scene.pixelRatio = Dpr(2)
           /\ gpu.scene.antialias <=> reported < Dpr(2)

\* a scene was rebuilt for a snapshot reporting a ratio above the cap
C16_Witness ==
    /\ gpu.mounted /\ provider.mounted /\ gpu.scene.built
    /\ gpu.seen = provider.snapshots /\ gpu.scenes >= 2
    /\ provider.capabilities.devicePixelRatio > Dpr(2)
    /\ gpu.scene.pixelRatio = Dpr(2) /\ ~gpu.scene.antialias

\* C10: when the pixel-ratio change event fires, the provider publishes a new
\* snapshot that differs from the previous one only in devicePixelRatio, and
\* detectDeviceCapabilities is not run again: once per provider mount.
C10_RatioChangeOnlyOverwritesRatio ==
    /\ [](provider.mounted => provider.detectCalls = 1)
    /\ [][ (provider.mounted /\ provider'.mounted
              /\ provider'.mqMatches # provider.mqMatches) =>
              /\ provider'.snapshots = provider.snapshots + 1
              /\ provider'.capabilities =
                     [provider.capabilities EXCEPT !.devicePixelRatio = hostDpr]
              /\ provider'.detectCalls = provider.detectCalls ]_vars

\* a mounted provider has republished after the host ratio changed
C10_Witness ==
    /\ provider.mounted
    /\ provider.snapshots = 2
    /\ provider.capabilities.devicePixelRatio # provider.mqRatio
    /\ provider.capabilities.devicePixelRatio = hostDpr

\* C11: after every change of the host's device pixel ratio while the provider
\* is mounted, a second or later change included, the provider eventually
\* publishes a snapshot whose devicePixelRatio equals the host's current ratio:
\* once the host stays at ratio r under a mounted provider, the published
\* snapshot settles at r.
C11_EveryRatioChangePublished ==
    \A r \in 1..MaxDpr :
        <>[](provider.mounted /\ hostDpr = r /\ provider.snapshots < MaxSnapshots)
            => <>[](provider.capabilities.devicePixelRatio = r)

\* C12: useDeviceCapabilities() raises 'useDeviceCapabilities must be used
\* within a DeviceProvider' when called outside an active provider scope, and
\* inside a provider returns the current snapshot with the accessibility string.
C12_AccessorThrowsOutsideScope ==
    /\ [][ consumer'["outside"] # consumer["outside"] =>
              /\ consumer'["outside"].threw
              /\ consumer'["outside"].message =
                     "useDeviceCapabilities must be used within a DeviceProvider" ]_vars
    /\ [][ consumer'["inside"] # consumer["inside"] =>
              /\ ~consumer'["inside"].threw
              /\ consumer'["inside"].value.capabilities = provider.capabilities
              /\ provider.capabilities.renderPath \in RenderCapability
              /\ consumer'["inside"].value.accessibilityMessage
                     = getAccessibilityMessage(provider.capabilities) ]_vars

\* a component outside the scope was refused while the provider was serving a
\* republished snapshot to a component inside it
C12_Witness ==
    /\ provider.mounted /\ provider.snapshots = 2
    /\ consumer["outside"].rendered /\ consumer["outside"].threw
    /\ consumer["inside"].rendered /\ ~consumer["inside"].threw
    /\ consumer["inside"].value.capabilities = provider.capabilities

\* C13: the pixel-ratio subscription created at provider mount is removed at
\* provider teardown: after unmount the change listener that was registered is
\* no longer registered, so a later pixel-ratio change publishes no snapshot.
C13_SubscriptionRemovedAtTeardown ==
    /\ [](provider.mounted <=> provider.mqListener)
    /\ [][ (~provider.mounted /\ ~provider'.mounted
               /\ provider'.mqMatches # provider.mqMatches) =>
              /\ provider'.mqIgnored
              /\ provider'.snapshots = 0
              /\ provider'.capabilities = NoCaps ]_vars

\* the media query of an unmounted provider changed and nobody was called
C13_Witness ==
    /\ ~provider.mounted
    /\ provider.mqRatio # 0 /\ provider.mqIgnored
    /\ ~provider.mqListener
    /\ provider.snapshots = 0 /\ provider.capabilities = NoCaps

(***************************************************************************)
(* Properties of the computation offload service                           *)
(***************************************************************************)
CallIds == 1..MaxCalls

\* C4: a solve() call made while the service is not READY (initialising,
\* failed or torn down) is rejected locally with 'Solver not ready': no solve
\* message is posted for it and no listener is attached for it.
C4_NotReadyRejectedLocally ==
    \A i \in CallIds :
        (calls[i].status # "idle" /\ calls[i].service # "READY") =>
            /\ calls[i].status = "rejected"
            /\ calls[i].error = <<"Solver not ready">>
            /\ ~calls[i].forwarded
            /\ ~calls[i].attached
            /\ i \notin hook.listeners
            /\ \A k \in 1..Len(toWorker) : toWorker[k].req # i

\* one call was made during initialisation and one after teardown
C4_Witness ==
    /\ \E i \in CallIds : calls[i].service = "INITIALIZING" /\ calls[i].status = "rejected"
    /\ \E i \in CallIds : calls[i].service \in {"TERMINATED", "FAILED"}
                          /\ calls[i].status = "rejected"

\* C5: when the background unit fails to evaluate a Solve request, that solve()
\* call is rejected with an error carrying the underlying failure text; it is
\* never resolved with data.
C5_EvalFailureRejectsCall ==
    \A i \in CallIds :
        calls[i].evalError # NoMessage =>
            /\ calls[i].status # "resolved"
            /\ calls[i].status = "rejected" => calls[i].error = calls[i].evalError

\* C6: during the lifetime of one service instance the background unit posts
\* exactly one initialisation outcome, one Ready or one Error, never two.
C6_OneInitOutcome == worker.outcomes <= 1

\* the message being dispatched to the listeners in this step, if any
Dispatching ==
    /\ toMain # <<>>
    /\ toMain' = Tail(toMain)
    /\ hook.workerRef /\ hook'.workerRef

\* C7: a second solve() issued before the first has settled attaches its
\* listener next to the first one's on the same channel, and a SolveResult
\* dispatched on that channel resolves every call whose listener is attached,
\* whichever request it was computed for.
C7_ListenersShareChannel ==
    /\ [][ \A i \in CallIds :
              (calls[i].status = "idle" /\ calls'[i].status = "pending") =>
                  hook'.listeners = hook.listeners \cup {i} ]_vars
    /\ [][ (Dispatching /\ Head(toMain).type = "solve-result") =>
              \A i \in hook.listeners :
                  /\ calls'[i].status = "resolved"
                  /\ calls'[i].data = Head(toMain).data
                  /\ calls'[i].settledBy = Head(toMain).req ]_vars

\* a call is resolved with the result computed for the other call's arguments,
\* while the background unit answered in FIFO order
C7_Witness ==
    /\ ~worker.reordered
    /\ \E i, j \in CallIds :
          /\ i # j
          /\ calls[i].status = "resolved"
          /\ calls[i].settledBy = j
          /\ calls[i].args # calls[j].args
          /\ calls[i].data = solveEquation(calls[j].args, TRUE, TRUE).data
          /\ calls[j].status = "resolved"

\* C25: once the service is READY it stays READY until teardown: an Error
\* response to a Solve request rejects that request only and leaves isReady
\* true and error null.
C25_SolveErrorKeepsReady ==
    [][ (/\ Dispatching
         /\ hook.state.isReady
         /\ Head(toMain).type = "error"
         /\ Head(toMain).req # 0)
           => /\ hook'.state.isReady
              /\ hook'.state.error = NoMessage
              /\ \A i \in CallIds \ {Head(toMain).req} :
                     calls'[i].status = calls[i].status ]_vars

Settled(i) == calls[i].status \in {"resolved", "rejected"}

\* C26: every solve() call that was forwarded to the background unit eventually
\* settles (resolves or rejects), also when the service is torn down or the
\* unit raises an error event while the request is in flight.
C26_ForwardedCallSettles ==
    \A i \in CallIds : calls[i].forwarded ~> Settled(i)

\* the message handler of the background unit takes a Solve request in this step
EvaluatingSolve ==
    /\ worker.status = "running" /\ worker'.status = "running"
    /\ toWorker # <<>>
    /\ Head(toWorker).type = "solve"
    /\ toWorker' = Tail(toWorker)

\* C28: whenever the background unit evaluates a Solve request after it has
\* posted Ready, the interpreter instance it uses has finished loading sympy
\* and numpy, although initialisation is started twice.
C28_EvaluatesOnLoadedInterpreter ==
    [][ (EvaluatingSolve /\ \E r \in 1..2 : worker.init[r] = "ready")
           => worker.pyodide \in worker.pkgs ]_vars

\* the requests with id i waiting for the handler, and the replies to them on
\* their way
Requests(i) == Cardinality({ k \in 1..Len(toWorker) : toWorker[k].req = i })
Replies(i) ==
    Cardinality({ k \in 1..Len(worker.evals) : worker.evals[k].req = i })
    + Cardinality({ k \in 1..Len(toMain) : toMain[k].req = i })

\* C29: the background unit answers every request with exactly one message,
\* a SolveResult or an Error, and goes on with later requests after an Error:
\* a request that was answered has no second reply coming, a request not yet
\* answered is waiting or has its one reply on the way, every reply is of one
\* of the two types, and again and again no request is left unanswered.
C29_OneReplyPerRequest ==
    /\ [](\A i \in CallIds :
             /\ Settled(i) => Requests(i) + Replies(i) = 0
             /\ calls[i].status = "pending" => Requests(i) + Replies(i) = 1)
    /\ [](\A k \in 1..Len(toMain) :
             toMain[k].req # 0 => toMain[k].type \in {"solve-result", "error"})
    /\ []<>(\A i \in CallIds : calls[i].status # "pending")

\* a Solve that came before initialisation had finished, or a request of an
\* unknown type, was answered with an Error, and a later Solve with its result
C29_Witness ==
    \E i, k \in CallIds :
        /\ i < k
        /\ calls[i].status = "rejected"
        /\ calls[i].error \in {<<"Pyodide not initialized">>, <<"Unknown request type">>}
        /\ calls[k].status = "resolved"
        /\ calls[k].data = solveEquation(calls[k].args, TRUE, TRUE).data

\* the forwarded calls of the mounted instance that have not settled
Unsettled ==
    { i \in CallIds : /\ calls[i].forwarded
                      /\ calls[i].mount = hook.mounts
                      /\ calls[i].status = "pending" }

\* C30: each forwarded solve() settles at most once and removes its message
\* listener when it settles: a later SolveResult or Error does not settle it
\* again, and while the instance is mounted the attached per-call listeners are
\* those of the forwarded calls that have not yet settled.
C30_SettlesOnceAndDetaches ==
    /\ [](hook.mounted => hook.listeners = Unsettled)
    /\ [][ \A i \in CallIds :
               Settled(i) => /\ calls'[i].status = calls[i].status
                             /\ calls'[i].data = calls[i].data
                             /\ calls'[i].error = calls[i].error
                             /\ calls'[i].settledBy = calls[i].settledBy
                             /\ i \notin hook'.listeners ]_vars

\* a call was settled by the response to another request, and the response to
\* its own request has been dispatched since: it is as it was settled
C30_Witness ==
    /\ hook.mounted
    /\ hook.listeners = {}
    /\ toWorker = <<>> /\ worker.evals = <<>> /\ toMain = <<>>
    /\ \E i, j \in CallIds :
          /\ i # j
          /\ calls[i].forwarded /\ calls[j].forwarded
          /\ Settled(i) /\ Settled(j)
          /\ calls[i].settledBy = j /\ calls[j].settledBy = j

\* the background execution units that exist: created and not terminated
LiveUnits == IF worker.status \in {"starting", "running", "broken"} THEN 1 ELSE 0

\* C31: between mount and unmount of a consuming component at most one
\* background execution unit exists for its service instance, exactly one if
\* creation succeeded, and none exists after unmount, also across repeated
\* mount/unmount cycles: a mount never finds a unit of an earlier cycle alive.
C31_OneUnitPerMount ==
    /\ []((hook.mounted /\ hook.workerRef) => LiveUnits = 1)
    /\ []((hook.mounted /\ ~hook.workerRef) => LiveUnits = 0)
    /\ [](~hook.mounted => LiveUnits = 0)
    /\ [][hook'.mounts > hook.mounts => LiveUnits = 0]_vars

\* the component is in its second cycle and its unit runs
C31_Witness ==
    /\ hook.mounts = 2
    /\ hook.mounted /\ hook.workerRef
    /\ worker.status = "running"

\* C32: a pointer-move event leaves the viewport bounds unchanged unless a pan
\* is in progress, i.e. a pointer-down has occurred with no pointer-up or
\* pointer-leave since; pointer-up and pointer-leave both end the pan.
C32_MoveOutsidePanKeepsBounds ==
    /\ [](canvas.mounted => (canvas.viewport.isPanning <=> canvas.pointerDown))
    /\ [][(canvas.mounted /\ ~canvas.pointerDown /\ canvas'.pointer # canvas.pointer)
              => BoundsOf(canvas'.viewport) = BoundsOf(canvas.viewport)]_vars

\* a pan has moved the window and has ended, and the pointer has moved on
\* from where the pan left it
C32_Witness ==
    /\ canvas.mounted /\ ~canvas.pointerDown
    /\ canvas.mutations > 0 /\ canvas.trail = <<>>
    /\ canvas.viewport.xMin + canvas.viewport.xMax
           # ViewportInit(DefaultBounds).xMin + ViewportInit(DefaultBounds).xMax
    /\ canvas.pointer # <<canvas.viewport.panStartX, canvas.viewport.panStartY>>

\* detectDeviceCapabilities has returned a snapshot made with a graphics context
DetectedWithContext ==
    /\ detectResult.called /\ ~detectResult.threw
    /\ DetectTier(env).tier > 0

\* the estimate by GPU family: the renderer strings of the mobile families,
\* of the desktop dedicated families, and any other
FamilyEstimate(renderer) ==
    CASE renderer \in {"Mali-G78", "Adreno (TM) 650"}          -> 1024
      [] renderer = "PowerVR SGX"                              -> 512
      [] renderer \in {"NVIDIA GeForce RTX", "AMD Radeon Pro"} -> 4096
      [] OTHER                                                 -> 2048

\* C34 as claimed: for an obtained graphics context gpuMemoryMB is 512 when the
\* debug-renderer-info extension is unavailable; otherwise 1024 for Mali and
\* Adreno, 512 for PowerVR, 4096 for NVIDIA/GeForce and Radeon/AMD, and 2048
\* for any other renderer; it is greater than 0.
C34_Original ==
    DetectedWithContext =>
        /\ detectResult.value.gpuMemoryMB > 0
        /\ detectResult.value.gpuMemoryMB =
              (IF ~env.debugInfo THEN 512 ELSE FamilyEstimate(env.renderer))

\* C34 amended: gpuMemoryMB is 512 also when the extension is available but
\* reports no renderer string.
C34_GpuMemoryByFamily ==
    DetectedWithContext =>
        /\ detectResult.value.gpuMemoryMB > 0
        /\ detectResult.value.gpuMemoryMB =
              (IF ~env.debugInfo \/ env.renderer = NULL THEN 512
               ELSE FamilyEstimate(env.renderer))

\* a legacy context whose extension reports no renderer string: 512
C34_Witness ==
    /\ DetectedWithContext
    /\ detectResult.value.webglVersion = 1
    /\ env.debugInfo /\ env.renderer = NULL
    /\ detectResult.value.gpuMemoryMB = 512

\* the large pixel-buffer allocation of the RAM probe was made and succeeded
AllocationSucceeded ==
    /\ env.hasWindow /\ env.hasDocument
    /\ env.ctx2d
    /\ env.imageData = "ok"

\* C35: the RAM probe never raises, and estimatedRAM is 2048 exactly when the
\* large 2D-canvas pixel-buffer allocation succeeded and 512 in every case
\* where it did not succeed (the allocation threw, returned nothing, or could
\* not be attempted because no 2D context was obtainable).
C35_RamFollowsAllocation ==
    detectResult.called =>
        /\ ~detectResult.threw
        /\ detectResult.value.estimatedRAM = (IF AllocationSucceeded THEN 2048 ELSE 512)

\* C36 as claimed: every DeviceCapabilities snapshot, whether produced by
\* detection or republished after a pixel-ratio change, has a numeric
\* devicePixelRatio >= 1; when the host provides no ratio it is 1.
C36_Original ==
    /\ (detectResult.called /\ ~detectResult.threw) =>
          /\ detectResult.value.devicePixelRatio >= Dpr(1)
          /\ ~env.hasWindow => detectResult.value.devicePixelRatio = Dpr(1)
    /\ provider.capabilities # NoCaps =>
          provider.capabilities.devicePixelRatio >= Dpr(1)

\* C36 amended: the devicePixelRatio of every snapshot is a positive number,
\* one the host has reported, which is below 1 when the page is zoomed out;
\* where there is no window it is 1.
C36_RatioIsTheHosts ==
    /\ (detectResult.called /\ ~detectResult.threw) =>
          /\ detectResult.value.devicePixelRatio \in 1..MaxDpr
          /\ ~env.hasWindow => detectResult.value.devicePixelRatio = Dpr(1)
    /\ provider.capabilities # NoCaps =>
          provider.capabilities.devicePixelRatio \in 1..MaxDpr

\* the republished snapshot of a page that was zoomed out, and a direct call
\* of the detector that returned a ratio below 1 as well
C36_Witness ==
    /\ provider.mounted /\ provider.snapshots >= 2
    /\ provider.capabilities.devicePixelRatio < Dpr(1)
    /\ detectResult.called /\ ~detectResult.threw
    /\ detectResult.value.devicePixelRatio < Dpr(1)

\* C37: the conditional rewrite is semantics-preserving: for all values of v,
\* k, a and b (including v = k), the rewritten statement
\* `t = mix(b, a, step(k, v));` assigns t the same value as the original
\* `if (v > k) t = a; else t = b;`.
C37_RewritePreservesValue ==
    (shader.run.ran /\ HasSimpleIfElse(shader.source)) =>
        shader.run.text = shader.run.source

\* C38: optimizeShader never adds a precision declaration to a source that
\* already contains one: whenever the input contains exactly one declaration
\* of the form `precision <qualifier> float;` (any qualifier), the output
\* contains exactly one.
C38_OneDeclarationStaysOne ==
    (shader.passes > 0 /\ PrecisionDeclarations(shader.previous) = 1) =>
        PrecisionDeclarations(shader.text) = 1

\* C39: every consumer rendered under a DeviceProvider observes a non-null
\* capabilities snapshot with isReady = true: the provider renders no children
\* before detection has completed, and never afterwards publishes a null
\* snapshot.
C39_ConsumersSeeReadySnapshot ==
    /\ [](consumer["inside"].rendered =>
            /\ ~consumer["inside"].threw
            /\ consumer["inside"].value.capabilities # NoCaps
            /\ consumer["inside"].value.isReady)
    /\ [][consumer'["inside"] # consumer["inside"] =>
              /\ provider.detectCalls > 0
              /\ consumer'["inside"].value.capabilities = provider.capabilities]_vars
    /\ [][(provider.mounted /\ provider'.mounted /\ provider.capabilities # NoCaps)
              => provider'.capabilities # NoCaps]_vars

\* a consumer has rendered with a republished snapshot, and the provider has
\* been through a render that showed nothing
C39_Witness ==
    /\ provider.mounted /\ provider.snapshots >= 2
    /\ consumer["inside"].rendered
    /\ consumer["inside"].value.capabilities = provider.capabilities
    /\ consumer["inside"].value.isReady

\* C9: teardown disposes the background unit and is idempotent: a second run,
\* or a run on an instance whose unit was never created, performs no second
\* terminate and raises nothing; after teardown the instance holds no unit.
C9_TeardownIdempotent ==
    /\ hook.terminates <= 1
    /\ ~hook.raised
    /\ (worker.status = "terminated") <=> (hook.terminates = 1)
    /\ hook.cleanups >= 1 =>
          /\ ~hook.workerRef
          /\ worker.status \in {"none", "terminated"}
          /\ toWorker = <<>> /\ toMain = <<>>

\* the teardown has run twice on an instance that had a running unit
C9_Witness ==
    /\ hook.cleanups = 2
    /\ hook.terminates = 1
    /\ worker.status = "terminated"

(***************************************************************************)
(* Properties of the 2D renderer                                           *)
(***************************************************************************)
TolUlps == 2        \* floating-point tolerance, in steps of the larger bound

ValidBounds(b) == b.xMax > b.xMin /\ b.yMax > b.yMin

Largest(b) ==
    LET m(i, j) == IF i < j THEN j ELSE i
    IN m(m(Abs(b.xMin), Abs(b.xMax)), m(Abs(b.yMin), Abs(b.yMax)))

\* every bound of `now` is within the tolerance of the same bound of `before`
WithinTolerance(now, before) ==
    LET tol == TolUlps * Ulp(Largest(before))
    IN /\ Abs(now.xMin - before.xMin) <= tol /\ Abs(now.xMax - before.xMax) <= tol
       /\ Abs(now.yMin - before.yMin) <= tol /\ Abs(now.yMax - before.yMax) <= tol

SolverIsReady == canvas.solver = "ready" /\ canvas'.solver = "ready"
XChanged ==
    \/ canvas'.viewport.xMin # canvas.viewport.xMin
    \/ canvas'.viewport.xMax # canvas.viewport.xMax
YChanged ==
    \/ canvas'.viewport.yMin # canvas.viewport.yMin
    \/ canvas'.viewport.yMax # canvas.viewport.yMax
SolveRequested ==
    /\ canvas'.requests = canvas.requests + 1
    /\ canvas'.lastRequest = [ equation |-> canvas.equation, variable |-> "x",
                               xMin |-> canvas'.viewport.xMin,
                               xMax |-> canvas'.viewport.xMax, numPoints |-> 200 ]

\* C17 as claimed: while the solver is READY, every pan or zoom mutation that
\* changes xMin or xMax causes a new Solve request for the equation with
\* variable 'x', the new [xMin, xMax] and 200 sample points; a mutation that
\* changes only yMin/yMax causes no Solve request.
C17_Original ==
    /\ [][ (SolverIsReady /\ XChanged) => SolveRequested ]_vars
    /\ [][ (SolverIsReady /\ ~XChanged /\ YChanged) =>
               canvas'.requests = canvas.requests ]_vars

\* C17 amended: as claimed, for a renderer whose equation prop is not the
\* empty string; with an empty equation no mutation causes a Solve request.
C17_XChangeSolvesNonEmptyEquation ==
    /\ [][ (SolverIsReady /\ XChanged /\ canvas.equation # "") => SolveRequested ]_vars
    /\ [][ (SolverIsReady /\ (canvas.equation = "" \/ (~XChanged /\ YChanged))) =>
               canvas'.requests = canvas.requests ]_vars

\* a vertical pan has changed the y-bounds of a viewport whose x-bounds a
\* zoom had changed before: the last request is the zoom's
C17_Witness ==
    /\ canvas.mounted /\ canvas.solver = "ready" /\ canvas.equation # ""
    /\ canvas.requests = 2
    /\ Len(canvas.trail) = 2
    /\ canvas.trail[1].kind \in {"in", "out"}
    /\ canvas.trail[2].kind = "pan" /\ canvas.trail[2].dx = 0 /\ canvas.trail[2].dy # 0
    /\ canvas.viewport.yMin # canvas.trail[2].before.yMin
    /\ canvas.lastRequest.xMin = canvas.viewport.xMin
    /\ canvas.lastRequest.xMin # DefaultBounds.xMin
    /\ canvas.lastRequest.numPoints = 200

\* C18: starting from bounds with xMax > xMin and yMax > yMin, every
\* ViewportState reachable by any sequence of pointer-down, pointer-move,
\* pointer-up, pointer-leave and wheel events satisfies xMax > xMin and
\* yMax > yMin; zoom never collapses a range to zero.
C18_RangesStayPositive ==
    canvas.mounted =>
        /\ canvas.viewport.xMax > canvas.viewport.xMin
        /\ canvas.viewport.yMax > canvas.viewport.yMin

\* a wheel zoom-in directly followed by a wheel zoom-out, from valid bounds
ZoomedInThenOut ==
    /\ canvas.mounted
    /\ Len(canvas.trail) = 2
    /\ canvas.trail[1].kind = "in" /\ canvas.trail[2].kind = "out"
    /\ ValidBounds(canvas.trail[1].before)

\* C19: from any valid viewport, a wheel zoom-in event followed by a wheel
\* zoom-out event of equal magnitude returns xMin, xMax, yMin and yMax to their
\* original values (within floating-point tolerance).
C19_ZoomInThenOutRestores ==
    ZoomedInThenOut =>
        WithinTolerance(BoundsOf(canvas.viewport), canvas.trail[1].before)

\* the last mutation of the viewport was a wheel event, on valid bounds
Zoomed ==
    /\ canvas.mounted
    /\ canvas.trail # <<>>
    /\ canvas.trail[Len(canvas.trail)].kind \in {"in", "out"}
    /\ ValidBounds(canvas.trail[Len(canvas.trail)].before)

\* zoomFactor as tenths: 1.1 for deltaY > 0 (zoom out), else 0.9
ZoomTenths(kind) == IF kind = "out" THEN 11 ELSE 9

\* the range hi - lo is `tenths`/10 of the range hi0 - lo0 and the centres are
\* the same, both to within `tol` steps of size `step`
ScaledAboutCentre(lo0, hi0, lo, hi, tenths, tol, step) ==
    /\ Abs(10 * (hi - lo) - tenths * (hi0 - lo0)) <= 10 * tol * step
    /\ Abs((lo + hi) - (lo0 + hi0)) <= 2 * tol * step

\* the same with the numbers the handler itself computes: the range hi - lo is
\* the product (hi0 - lo0) * zoomFactor and the centre (lo + hi) / 2 is the
\* number it was
ScaledExactly(lo0, hi0, lo, hi, tenths) ==
    /\ FSub(hi, lo) = FScale(FSub(hi0, lo0), tenths, 10)
    /\ FHalf(FAdd(lo, hi)) = FHalf(FAdd(lo0, hi0))

\* a wheel step leaves panStartX, panStartY and isPanning as they were
WheelKeepsPanState ==
    (/\ canvas.mounted
     /\ canvas'.mutations > canvas.mutations
     /\ canvas'.trail[Len(canvas'.trail)].kind \in {"in", "out"})
    => /\ canvas'.viewport.panStartX = canvas.viewport.panStartX
       /\ canvas'.viewport.panStartY = canvas.viewport.panStartY
       /\ canvas'.viewport.isPanning = canvas.viewport.isPanning

\* C33 as claimed: a wheel event multiplies the x-range and the y-range by the
\* same fixed factor (1.1 for positive deltaY, 0.9 otherwise), leaves the
\* centre of each range unchanged, and changes nothing else in the
\* ViewportState.
C33_Original ==
    /\ [](Zoomed =>
            LET last == canvas.trail[Len(canvas.trail)]
                b == last.before
                v == canvas.viewport
            IN /\ ScaledExactly(b.xMin, b.xMax, v.xMin, v.xMax, ZoomTenths(last.kind))
               /\ ScaledExactly(b.yMin, b.yMax, v.yMin, v.yMax, ZoomTenths(last.kind)))
    /\ [][WheelKeepsPanState]_vars

\* C33 amended: the ranges are multiplied by the factor, and the centres
\* kept, to within floating-point tolerance; nothing else changes.
C33_WheelScalesAboutCentre ==
    /\ [](Zoomed =>
            LET last == canvas.trail[Len(canvas.trail)]
                b == last.before
                v == canvas.viewport
                step == Ulp(Largest(b))
            IN /\ ScaledAboutCentre(b.xMin, b.xMax, v.xMin, v.xMax,
                                    ZoomTenths(last.kind), TolUlps, step)
               /\ ScaledAboutCentre(b.yMin, b.yMax, v.yMin, v.yMax,
                                    ZoomTenths(last.kind), TolUlps, step))
    /\ [][WheelKeepsPanState]_vars

\* a wheel event during a pan, after which the x-range is not the product the
\* handler computed, the two bounds having been rounded
C33_Witness ==
    /\ Zoomed
    /\ canvas.viewport.isPanning
    /\ LET last == canvas.trail[Len(canvas.trail)]
       IN FSub(canvas.viewport.xMax, canvas.viewport.xMin)
              # FScale(FSub(last.before.xMax, last.before.xMin),
                       ZoomTenths(last.kind), 10)

\* two pan moves of one gesture, the second undoing the pointer's first
PannedThereAndBack ==
    /\ canvas.mounted
    /\ Len(canvas.trail) = 2
    /\ canvas.trail[1].kind = "pan" /\ canvas.trail[2].kind = "pan"
    /\ canvas.trail[2].dx = -canvas.trail[1].dx
    /\ canvas.trail[2].dy = -canvas.trail[1].dy
    /\ ValidBounds(canvas.trail[1].before)

\* C20 as claimed: within a pan gesture, moving the pointer by (dx, dy) and
\* then by (-dx, -dy) returns xMin, xMax, yMin and yMax to their original
\* values, at any zoom level.
C20_Original ==
    PannedThereAndBack => BoundsOf(canvas.viewport) = canvas.trail[1].before

\* C20 amended: the four bounds return to within floating-point tolerance of
\* their original values, not always to the very same numbers.
C20_PanBackWithinTolerance ==
    PannedThereAndBack =>
        WithinTolerance(BoundsOf(canvas.viewport), canvas.trail[1].before)

\* a diagonal pan and its reverse, after a zoom, ended one step off the
\* original bounds
C20_Witness ==
    /\ PannedThereAndBack
    /\ canvas.mutations = 3
    /\ canvas.trail[1].dx # 0 /\ canvas.trail[1].dy # 0
    /\ BoundsOf(canvas.viewport) # canvas.trail[1].before
    /\ WithinTolerance(BoundsOf(canvas.viewport), canvas.trail[1].before)

(***************************************************************************)
(* Properties of solveEquation                                             *)
(***************************************************************************)
RatEq(a, b) == a.num * b.den = b.num * a.den
RatSub(a, b) == Rat(a.num * b.den - b.num * a.den, a.den * b.den)
RatInt(n) == Rat(n, 1)

EvenlySpaced(xs) ==
    \A i \in 1..(Len(xs) - 2) :
        RatEq(RatSub(xs[i + 1], xs[i]), RatSub(xs[i + 2], xs[i + 1]))

Succeeded == sample.done /\ sample.result.ok /\ sample.args.numPoints >= 1

====
